---- MODULE Spec2Model ----
(***************************************************************************)
(* Model of the paid-runners scanner (src/paid_runners_bot.py).            *)
(*                                                                         *)
(* Numbers.  Python floats are modelled as integers:                       *)
(*   - USD amounts, transaction counts, percentages and minutes are whole  *)
(*     numbers;                                                            *)
(*   - score and spike_score are kept in thousandths (0.85 is 850);        *)
(*   - turnover_1h_over_liq is kept in ten-thousandths (0.01 is 100).      *)
(* Divisions round down, so a modelled score is at most a few thousandths  *)
(* below the float the program computes.                                   *)
(*                                                                         *)
(* Strings.  A token address is a pair <<id, variant>>: id 0 is the empty  *)
(* string, variant 0 is the all-lowercase spelling and variant 1 a         *)
(* spelling of the same address containing upper-case letters.             *)
(*                                                                         *)
(* JSON values read through _safe_float/_safe_int are tagged records:      *)
(*   [t |-> "null"]            a missing key or null                       *)
(*   [t |-> "num", v |-> n]    a JSON number                               *)
(*   [t |-> "str", v |-> n]    a string that parses to n ("1,500")          *)
(*   [t |-> "bad", v |-> 0]    a string that does not parse ("n/a", "")     *)
(*   [t |-> "inf", v |-> s]    an infinite float, or a string float()      *)
(*                             reads as one ("inf", "-Infinity"); s = 1, -1 *)
(*   [t |-> "nan", v |-> 0]    a NaN float, or the string "nan"            *)
(* The integer operators are defined on the first four; the last two are   *)
(* followed through score_pair by their IEEE class (see score_pair_class). *)
(***************************************************************************)
EXTENDS Integers, Sequences, FiniteSets, TLC

VARIABLES
    pc,                   \* position of run_scan_for_modes
    opts,                 \* ScanOptions of the call
    candidates_by_token,  \* the candidate table, in insertion order
    candidates,           \* the sorted, truncated candidate list
    token_addrs,          \* addresses sent to pair resolution
    all_pairs,            \* the pairs the batched requests returned so far
    pairs_by_token,       \* lowercased address -> sequence of pair snapshots
    batches,              \* the chunks still to be requested
    missing,              \* tokens still to be looked up by the fallback
    rows,                 \* the row list (then the returned list)
    done,                 \* tokens processed so far
    idx,                  \* loop position (token loop, orders loop)
    why_filtered_list,    \* verbose rejection trail
    debug,                \* the debug record's "why" flag and counts
    calls,                \* provider calls issued so far, in order
    progress,             \* progress_callback invocations, in order
    resp,                 \* the provider response consumed by the last step
    trail,                \* per processed token: the branch that disposed of it
    world,                \* which of the provider's response sets the scan sees
    mrg,                  \* state of the _merge_candidate fold
    gate,                 \* state of the per-token metrics/score/gate chain
    ui,                   \* the application's session and persisted scan state
    tape                  \* the provider's answers on record, when a scan is repeated

vars == <<pc, opts, candidates_by_token, candidates, token_addrs, all_pairs,
          pairs_by_token, batches, missing, rows, done, idx,
          why_filtered_list, debug, calls, progress, resp, trail, world,
          mrg, gate, ui, tape>>

scanVars == <<pc, candidates_by_token, candidates, token_addrs, all_pairs,
              pairs_by_token, batches, missing, rows, done, idx,
              why_filtered_list, debug, calls, progress, resp, trail, world>>

-----------------------------------------------------------------------------
(* Generic helpers                                                         *)

Max(a, b) == IF a >= b THEN a ELSE b
Min(a, b) == IF a <= b THEN a ELSE b

Range(s) == {s[i] : i \in 1..Len(s)}

RECURSIVE SeqsUpTo(_, _)
SeqsUpTo(S, n) ==
    IF n = 0 THEN {<<>>}
    ELSE LET shorter == SeqsUpTo(S, n - 1)
         IN  shorter \cup {Append(s, x) : s \in {t \in shorter : Len(t) = n - 1}, x \in S}

Take(s, n) == SubSeq(s, 1, Min(n, Len(s)))

\* lexicographic >= and > on tuples of integers of equal length
RECURSIVE LexGt(_, _)
LexGt(a, b) ==
    IF Len(a) = 0 THEN FALSE
    ELSE IF a[1] # b[1] THEN a[1] > b[1]
    ELSE LexGt(Tail(a), Tail(b))

LexGe(a, b) == a = b \/ LexGt(a, b)

\* list.sort(key=Key, reverse=True): a stable sort, descending by key.
\* The elements are paired with their keys, <<key, element>>; insertion keeps
\* an element behind every element whose key is >= its own.
RECURSIVE InsertDesc(_, _)
InsertDesc(sorted, kx) ==
    IF sorted = <<>> THEN <<kx>>
    ELSE IF LexGe(Head(sorted)[1], kx[1])
         THEN <<Head(sorted)>> \o InsertDesc(Tail(sorted), kx)
         ELSE <<kx>> \o sorted

RECURSIVE SortDescFrom(_, _)
SortDescFrom(acc, s) ==
    IF s = <<>> THEN acc
    ELSE SortDescFrom(InsertDesc(acc, Head(s)), Tail(s))

SortDesc(s, Key(_)) ==
    LET keyed  == [i \in 1..Len(s) |-> <<Key(s[i]), s[i]>>]
        sorted == SortDescFrom(<<>>, keyed)
    IN  [i \in 1..Len(s) |-> sorted[i][2]]

-----------------------------------------------------------------------------
(* Strings and JSON values                                                 *)

EmptyAddr == <<0, 0>>

\* str.lower() on an address
Lower(a) == <<a[1], 0>>

CHAIN_ID == "solana"

_normalize_chain_id(c) ==
    IF c \in {"sol", "solana-mainnet", "mainnet", "sol-mainnet"} THEN "solana" ELSE c

Null == [t |-> "null", v |-> 0]
Num(n) == [t |-> "num", v |-> n]
Str(n) == [t |-> "str", v |-> n]
Bad == [t |-> "bad", v |-> 0]

PosInf == [t |-> "inf", v |-> 1]
NegInf == [t |-> "inf", v |-> -1]
NaN == [t |-> "nan", v |-> 0]

_safe_float(x, default) ==
    CASE x.t = "null" -> default
      [] x.t = "num"  -> x.v
      [] x.t = "str"  -> x.v
      [] x.t = "bad"  -> default

\* The IEEE class of _safe_float(x): "fin", "+inf", "-inf" or "nan".
\* float(x) and float(s) return an infinity or a NaN as they are; only an
\* exception gives the default.
_safe_float_class(x) ==
    CASE x.t = "inf" -> IF x.v > 0 THEN "+inf" ELSE "-inf"
      [] x.t = "nan" -> "nan"
      [] OTHER       -> "fin"

_safe_int(x, default) ==
    CASE x.t = "null" -> default
      [] x.t = "num"  -> x.v
      [] x.t = "str"  -> x.v
      [] OTHER        -> default

-----------------------------------------------------------------------------
(* math.log10, in thousandths, for an integer argument >= 1.               *)
(* The binary logarithm is computed bit by bit (8 fractional bits, on a    *)
(* 14-bit mantissa) and scaled by log10(2) = 0.30103.                      *)

RECURSIVE Pow2(_)
Pow2(k) == IF k = 0 THEN 1 ELSE 2 * Pow2(k - 1)

RECURSIVE FloorLog2(_)
FloorLog2(n) == IF n < 2 THEN 0 ELSE 1 + FloorLog2(n \div 2)

RECURSIVE LogFrac(_, _, _)
LogFrac(y, i, acc) ==
    IF i > 8 THEN acc
    ELSE LET s == (y * y) \div 16384
         IN  IF s >= 32768
             THEN LogFrac(s \div 2, i + 1, acc + Pow2(8 - i))
             ELSE LogFrac(s, i + 1, acc)

Log10Milli(n) ==
    LET e == FloorLog2(n)
        y == IF e >= 14 THEN n \div Pow2(e - 14) ELSE n * Pow2(14 - e)
        log2q == e * 256 + LogFrac(y, 1, 0)
    IN  (log2q * 30103) \div 25600

-----------------------------------------------------------------------------
(* Clock                                                                   *)

\* _now_utc_ms(), in minutes
NowMin == 1000000

\* an age without the clamp at zero
_age_minutes_unclamped(pair_created_at) ==
    LET ts == _safe_int(pair_created_at, 0)
    IN  IF ts <= 0 THEN 999999
        ELSE NowMin - ts

_age_minutes_from_pair_created_at(pair_created_at) ==
    LET ts == _safe_int(pair_created_at, 0)
    IN  IF ts <= 0 THEN 999999
        ELSE Max(0, NowMin - ts)

-----------------------------------------------------------------------------
(* Scoring / filtering                                                     *)

compute_metrics_from_pair(pair) ==
    LET liq_usd == _safe_float(pair.liquidity_usd, 0)
        vol5    == _safe_float(pair.volume_m5, 0)
        vol1    == _safe_float(pair.volume_h1, 0)
        vol24   == _safe_float(pair.volume_h24, 0)
        buys5   == _safe_int(pair.txns_m5_buys, 0)
        sells5  == _safe_int(pair.txns_m5_sells, 0)
    IN  [ pairAddress  |-> pair.pairAddress,
          liquidityUsd |-> liq_usd,
          vol5m        |-> vol5,
          vol1h        |-> vol1,
          vol24h       |-> vol24,
          buys5m       |-> buys5,
          sells5m      |-> sells5,
          netBuy5m     |-> buys5 - sells5,
          m5pct        |-> _safe_float(pair.priceChange_m5, 0),
          h1pct        |-> _safe_float(pair.priceChange_h1, 0),
          ageMin       |-> _age_minutes_from_pair_created_at(pair.pairCreatedAt),
          turnover_1h_over_liq |->
              IF liq_usd > 0 THEN (vol1 * 10000) \div liq_usd ELSE 0 ]

\* mom, in hundredths: m5pct * (1.15 | 0.85) + h1pct * 0.35
Momentum(row, pump_mode) ==
    row.m5pct * (IF pump_mode THEN 115 ELSE 85) + row.h1pct * 35

score_pair(row, pump_mode) ==
    LET liq_s  == Log10Milli(1 + Max(row.liquidityUsd, 0))
        vol_s  == Log10Milli(1 + Max(row.vol1h, 0))
        flow_s == Log10Milli(1 + Max(row.netBuy5m, 0))
        mom    == Momentum(row, pump_mode)
        spike_score ==
              (55 * Max(0, mom)) \div 100
            + Min(750, (36 * row.turnover_1h_over_liq) \div 100)
            + Min(2000, flow_s \div 2) \div 4
        score ==
              (300 * liq_s) \div 1000
            + (250 * vol_s) \div 1000
            + (1150 * spike_score) \div 1000
            + (IF row.m5pct > 0 THEN 150 ELSE 0)
    IN  [score |-> score, spike_score |-> spike_score]

\* a + b on classes (the sum of two finite floats is taken as finite)
ClassAdd(a, b) ==
    IF a = "nan" \/ b = "nan" THEN "nan"
    ELSE IF {a, b} = {"+inf", "-inf"} THEN "nan"
    ELSE IF a # "fin" THEN a
    ELSE b

\* Python's max(x, 0.0) and max(0.0, x): the first argument is returned
\* unless the second compares greater, and no comparison with a NaN is true
ClassMaxWithZero(x) ==
    CASE x = "nan" -> "nan" [] x = "+inf" -> "+inf" [] OTHER -> "fin"

ClassMaxZeroWith(x) ==
    CASE x = "+inf" -> "+inf" [] OTHER -> "fin"

\* min(cap, x), cap finite: cap is returned unless x compares smaller
ClassMinCapWith(x) ==
    CASE x = "-inf" -> "-inf" [] OTHER -> "fin"

\* The IEEE classes of what score_pair returns for a metrics record whose
\* values are still as they arrived.  Multiplying or dividing by a positive
\* constant and math.log10(1.0 + x) for x >= 0 keep the class; netBuy5m goes
\* through _safe_int, which turns an infinity or a NaN into the default 0.
score_pair_class(row, pump_mode) ==
    LET liq      == _safe_float_class(row.liquidityUsd)
        vol1     == _safe_float_class(row.vol1h)
        m5pct    == _safe_float_class(row.m5pct)
        h1pct    == _safe_float_class(row.h1pct)
        turnover == _safe_float_class(row.turnover_1h_over_liq)
        liq_s    == ClassMaxWithZero(liq)
        vol_s    == ClassMaxWithZero(vol1)
        flow_s   == "fin"
        mom      == ClassAdd(m5pct, h1pct)
        spike_score ==
            ClassAdd(ClassAdd(ClassMaxZeroWith(mom), ClassMinCapWith(turnover)),
                     flow_s)
        score ==
            ClassAdd(ClassAdd(ClassAdd(liq_s, vol_s), spike_score), "fin")
    IN  [score |-> score, spike_score |-> spike_score]

KnownModes == {"ultra_early", "early_strict", "early", "strict", "degen"}

\* the table of _mode_thresholds; "degen" is the fallback of any other name
ModeTable(mode, pump_mode) ==
    CASE mode = "ultra_early" ->
           [ min_liq     |-> IF pump_mode THEN 2500 ELSE 4000,
             min_vol5    |-> IF pump_mode THEN 40 ELSE 80,
             min_netbuy5 |-> IF pump_mode THEN 0 ELSE 1,
             max_age_min |-> 240,
             min_score   |-> 150 ]
      [] mode = "early_strict" ->
           [ min_liq     |-> IF pump_mode THEN 6000 ELSE 12000,
             min_vol5    |-> IF pump_mode THEN 120 ELSE 250,
             min_netbuy5 |-> IF pump_mode THEN 1 ELSE 2,
             max_age_min |-> 24 * 60,
             min_score   |-> 450 ]
      [] mode = "early" ->
           [ min_liq     |-> IF pump_mode THEN 3500 ELSE 8000,
             min_vol5    |-> IF pump_mode THEN 80 ELSE 160,
             min_netbuy5 |-> IF pump_mode THEN 0 ELSE 1,
             max_age_min |-> 24 * 60,
             min_score   |-> 250 ]
      [] mode = "strict" ->
           [ min_liq     |-> IF pump_mode THEN 15000 ELSE 25000,
             min_vol5    |-> IF pump_mode THEN 250 ELSE 500,
             min_netbuy5 |-> IF pump_mode THEN 2 ELSE 3,
             max_age_min |-> 7 * 24 * 60,
             min_score   |-> 850 ]
      [] OTHER ->
           [ min_liq     |-> IF pump_mode THEN 2500 ELSE 5000,
             min_vol5    |-> IF pump_mode THEN 60 ELSE 120,
             min_netbuy5 |-> IF pump_mode THEN 0 ELSE 1,
             max_age_min |-> 7 * 24 * 60,
             min_score   |-> 200 ]

\* a table whose minimum scores are 0.45 higher
_mode_thresholds_higher_score(mode, pump_mode) ==
    [ModeTable(mode, pump_mode) EXCEPT !.min_score = @ + 450]

\* a table whose strict liquidity minimum lost a digit
_mode_thresholds_thin_strict(mode, pump_mode) ==
    [ModeTable(mode, pump_mode) EXCEPT
        !.min_liq = IF mode = "strict" THEN @ \div 25 ELSE @]

\* a table that does not loosen its thresholds in pump mode
_mode_thresholds_strict_only(mode, pump_mode) == ModeTable(mode, FALSE)

\* mode = (mode or "").strip().lower(): the model's mode names are already
\* stripped and lowercase
_mode_thresholds(mode, pump_mode) == ModeTable(mode, pump_mode)

\* the mode loop without its age check
ModeQualifiesAnyAge(row, mode, pump_mode) ==
    LET t == _mode_thresholds(mode, pump_mode)
    IN  /\ ~(row.liquidityUsd < t.min_liq)
        /\ ~(row.vol5m < t.min_vol5)
        /\ ~(row.netBuy5m < t.min_netbuy5)
        /\ ~(row.score < t.min_score)

\* the five checks of the mode loop: the row is appended iff none of them
\* takes the `continue`
ModeQualifies(row, mode, pump_mode) ==
    LET t == _mode_thresholds(mode, pump_mode)
    IN  /\ ~(row.liquidityUsd < t.min_liq)
        /\ ~(row.vol5m < t.min_vol5)
        /\ ~(row.netBuy5m < t.min_netbuy5)
        /\ ~(row.ageMin > t.max_age_min)
        /\ ~(row.score < t.min_score)

\* a shorter grace period outside pump mode
AntiDeadYoungAgeShort(pump_mode) == IF pump_mode THEN 90 ELSE 30

\* age up to which _anti_dead_pass keeps a token whatever its metrics
AntiDeadYoungAge(pump_mode) == IF pump_mode THEN 90 ELSE 60

\* a prefilter that a verbose scan passes everything through
_anti_dead_pass_if_quiet(row, o) ==
    o.verbose_debug \/ row.ageMin <= AntiDeadYoungAge(o.pump_mode)

_anti_dead_pass(row, o) ==
    IF row.ageMin <= AntiDeadYoungAge(o.pump_mode) THEN TRUE
    ELSE
      \* floors are compared in hundredths: x * 0.75 is 75 * x / 100
      LET factor      == IF o.pump_mode THEN 75 ELSE 85
          liq_floor   == Max(1200 * 100, o.trending_min_liquidity * factor)
          txns5       == row.buys5m + row.sells5m
          vol_floor   == Max(40 * 100, o.trending_min_vol5m * factor)
      IN  IF row.liquidityUsd * 100 < liq_floor THEN FALSE
          ELSE IF txns5 < (IF o.pump_mode THEN 1 ELSE 2)
                  /\ row.vol5m * 100 < vol_floor THEN FALSE
          ELSE IF row.ageMin > 10 * 24 * 60 THEN FALSE
          ELSE TRUE

\* the reasons without the rule on a non-positive m5
_trending_reasons_without_m5(row, o) ==
      (IF row.liquidityUsd < o.trending_min_liquidity THEN {"low_liq"} ELSE {})
    \cup
      (IF row.vol1h < o.trending_min_vol1h /\ row.vol5m < o.trending_min_vol5m
       THEN {"low_vol"} ELSE {})
    \cup
      (IF row.netBuy5m < o.trending_min_netbuy5m THEN {"low_netbuy"} ELSE {})
    \cup
      (IF row.spike_score < o.spike_score_min THEN {"low_spike"} ELSE {})
    \cup
      (IF /\ row.boostAmount > 0
          /\ row.netBuy5m <= 0
          /\ row.turnover_1h_over_liq < 100
          /\ row.spike_score < Max(o.spike_score_min, 400)
       THEN {"promoted_no_real_buy"} ELSE {})

_trending_reasons(row, o) ==
      (IF row.liquidityUsd < o.trending_min_liquidity THEN {"low_liq"} ELSE {})
    \cup
      (IF row.vol1h < o.trending_min_vol1h /\ row.vol5m < o.trending_min_vol5m
       THEN {"low_vol"} ELSE {})
    \cup
      (IF row.netBuy5m < o.trending_min_netbuy5m THEN {"low_netbuy"} ELSE {})
    \cup
      (IF row.spike_score < o.spike_score_min THEN {"low_spike"} ELSE {})
    \cup
      (IF /\ row.boostAmount > 0
          /\ row.netBuy5m <= 0
          /\ row.turnover_1h_over_liq < 100
          /\ row.spike_score < Max(o.spike_score_min, 400)
       THEN {"promoted_no_real_buy"} ELSE {})
    \cup
      (IF row.m5pct <= 0 /\ row.spike_score < Max(o.spike_score_min, 550)
       THEN {"m5_non_positive"} ELSE {})

-----------------------------------------------------------------------------
(* ScanOptions                                                             *)

\* the defaults of run_scan_for_modes' keyword arguments
DefaultOpts ==
    [ selected_modes        |-> <<"early_strict", "early", "strict", "degen">>,
      top_n                 |-> 20,
      candidates_max        |-> 250,
      anti_dead             |-> TRUE,
      include_boosts        |-> TRUE,
      include_profiles      |-> TRUE,
      include_cto           |-> TRUE,
      include_ads           |-> FALSE,
      include_orders        |-> FALSE,
      unique_per_token      |-> TRUE,
      trending_filters      |-> TRUE,
      trending_min_liquidity |-> 15000,
      trending_min_vol1h    |-> 1000,
      trending_min_vol5m    |-> 500,
      trending_min_netbuy5m |-> 2,
      spike_score_min       |-> 250,
      verbose_debug         |-> FALSE,
      pump_mode             |-> FALSE,
      sort_by_spike         |-> TRUE,
      progress_callback     |-> FALSE ]

-----------------------------------------------------------------------------
(* Candidates                                                              *)

\* candidates_by_token.get(key, {}) for a key that is not in the table
NoCand == [absent |-> TRUE]

\* the keys a candidate dict may carry; a key the dict lacks reads as the
\* falsy value .get() gives for it ("" for None, 0, FALSE, <<>>)
Candidate(chain, ta, source, amount, total, btype, cto, url, desc, links, icon, header) ==
    [ chainId            |-> chain,
      tokenAddress       |-> ta,
      source             |-> source,
      sources            |-> IF source = "" THEN <<>> ELSE <<source>>,
      boostAmount        |-> amount,
      boostTotal         |-> total,
      boostType          |-> btype,
      isCTO              |-> cto,
      profileUrl         |-> url,
      profileDescription |-> desc,
      profileLinksCount  |-> links,
      icon               |-> icon,
      header             |-> header ]

\* priority = {"boosts": 3, "ads": 2, "cto": 1, "profiles": 0}; .get(_, 0)
PriorityAdsFirst(s) ==
    CASE s = "boosts" -> 2 [] s = "ads" -> 3 [] s = "cto" -> 1 [] OTHER -> 0

Priority(s) ==
    CASE s = "boosts" -> 3 [] s = "ads" -> 2 [] s = "cto" -> 1 [] OTHER -> 0

\* an append that does not look whether the name is already listed
AppendAll(s1, more) == s1 \o more

\* for s in (...): if s and s not in s1: s1.append(s)
RECURSIVE AppendNew(_, _)
AppendNew(s1, more) ==
    IF more = <<>> THEN s1
    ELSE LET s == Head(more)
         IN  AppendNew(IF s # "" /\ s \notin Range(s1) THEN Append(s1, s) ELSE s1,
                       Tail(more))

\* out[k] = src[k] only when out[k] is falsy and src[k] is not
\* a fill that overwrites what is already set
FillAlways(mine, theirs, empty) == IF theirs # empty THEN theirs ELSE mine

FillOnce(mine, theirs, empty) == IF mine = empty /\ theirs # empty THEN theirs ELSE mine

_merge_candidate(dst, src) ==
    IF dst = NoCand THEN src
    ELSE
      [ dst EXCEPT
          !.sources     = AppendNew(dst.sources, <<src.source>> \o src.sources),
          !.source      = IF Priority(src.source) > Priority(dst.source)
                          THEN src.source ELSE dst.source,
          !.boostAmount = Max(dst.boostAmount, src.boostAmount),
          !.boostTotal  = Max(dst.boostTotal, src.boostTotal),
          !.boostType   = IF dst.boostType # "" THEN dst.boostType ELSE src.boostType,
          !.isCTO       = dst.isCTO \/ src.isCTO,
          !.profileUrl         = FillOnce(dst.profileUrl, src.profileUrl, ""),
          !.profileDescription = FillOnce(dst.profileDescription, src.profileDescription, ""),
          !.profileLinksCount  = FillOnce(dst.profileLinksCount, src.profileLinksCount, 0),
          !.icon               = FillOnce(dst.icon, src.icon, ""),
          !.header             = FillOnce(dst.header, src.header, "") ]

\* A feed item: [chainId, tokenAddress, amount, totalAmount, type, url,
\* description, links, icon, header]; amount and totalAmount are JSON values
\* (Null: the key and its alternative spellings are missing).
Item(chain, ta, amount, total, btype, url, desc, links) ==
    [ chainId |-> chain, tokenAddress |-> ta, amount |-> amount,
      totalAmount |-> total, type |-> btype, url |-> url,
      description |-> desc, links |-> links, icon |-> "", header |-> "" ]

\* a constructor that takes a record of any chain
ItemAcceptedAnyChain(it) == it.tokenAddress # EmptyAddr

\* None for an item of another chain or without an address
ItemAccepted(it) ==
    /\ _normalize_chain_id(it.chainId) = CHAIN_ID
    /\ it.tokenAddress # EmptyAddr

_candidate_from_boost_item(it) ==
    LET amount == IF it.amount = Null THEN Num(0) ELSE it.amount
        total  == IF it.totalAmount = Null THEN amount ELSE it.totalAmount
    IN  Candidate(_normalize_chain_id(it.chainId), it.tokenAddress, "boosts",
                  _safe_float(amount, 0), _safe_float(total, 0), it.type,
                  FALSE, it.url, "", 0, "", "")

_candidate_from_ad_item(it) ==
    Candidate(_normalize_chain_id(it.chainId), it.tokenAddress, "ads",
              0, 0, "", FALSE, it.url, "", 0, "", "")

_candidate_from_cto_item(it) ==
    Candidate(_normalize_chain_id(it.chainId), it.tokenAddress, "cto",
              0, 0, "", TRUE, it.url, it.description, it.links, "", "")

\* the entry profiles_idx keeps for a profile item
ProfileEntry(p) ==
    Candidate("", EmptyAddr, "", 0, 0, "", FALSE,
              p.url, p.description, p.links, p.icon, p.header)

-----------------------------------------------------------------------------
(* The market data provider: what its endpoints may answer.                *)
(*                                                                         *)
(* A scan runs in one of two worlds.  In world "feeds" the promotion feeds *)
(* vary (tokens 1..3, several spellings, other chains, empty addresses)    *)
(* and every token has one healthy pair.  In world "market" the boosts     *)
(* feed names tokens 1 and 2 and the pairs the provider returns for them   *)
(* vary.  Both worlds run the same code.                                   *)

Worlds == {"feeds", "market"}

\* longest promotion feed of world "feeds"
MaxFeed == 1

SOL == <<9, 0>>

BoostItems ==
    { Item("solana", <<1, 1>>, Num(50), Null, "x", "u1", "", 0),
      Item("sol", <<1, 0>>, Str(10), Num(70), "", "", "", 0),
      Item("solana", <<2, 0>>, Null, Null, "", "", "", 0),
      Item("ethereum", <<3, 0>>, Num(90), Null, "", "", "", 0),
      Item("solana", EmptyAddr, Num(5), Null, "", "", "", 0) }

TopItems ==
    { Item("solana", <<1, 0>>, Num(20), Num(20), "y", "", "", 0),
      Item("solana", <<3, 0>>, Num(60), Null, "", "", "", 0) }

AdItems ==
    { Item("solana", <<1, 0>>, Null, Null, "", "u2", "", 0),
      Item("solana", <<3, 1>>, Null, Null, "", "", "", 0) }

CtoItems ==
    { Item("solana", <<2, 1>>, Null, Null, "", "", "d1", 2),
      Item("bsc", <<1, 0>>, Null, Null, "", "", "d2", 1) }

ProfileItems ==
    { [Item("solana", <<1, 1>>, Null, Null, "", "u3", "d3", 3) EXCEPT !.icon = "i3"],
      [Item("solana", <<2, 0>>, Null, Null, "", "", "", 0) EXCEPT !.header = "h4"] }

\* what the market world's boosts feed holds
MarketBoosts ==
    << Item("solana", <<1, 1>>, Num(50), Null, "x", "u1", "", 0),
       Item("solana", <<2, 0>>, Null, Null, "", "", "", 0) >>

BoostsLatestResponses(w) ==
    IF w = "feeds" THEN SeqsUpTo(BoostItems, MaxFeed) ELSE {MarketBoosts}

\* A third world, "bulk", is the one of a busy day: the boosts feed names
\* more tokens than one batched request carries.
\* most tokens the bulk world's boosts feed names
MaxBulk == 65

BulkTokens == 10..(9 + MaxBulk)

\* A fourth world, "flood", is the one of an outage on the pairs endpoints:
\* the boosts feed names more tokens than the debug record lists, and no
\* request for pairs returns any.
\* most tokens the flood world's boosts feed names
MaxFlood == 401

FloodTokens == 10..(9 + MaxFlood)

\* n tokens in alternating spellings; with `again`, the first token once
\* more in its other spelling
BulkFeed(n, again) ==
    [i \in 1..n |-> Item("solana", <<9 + i, i % 2>>, Null, Null, "", "", "", 0)]
    \o (IF again THEN <<Item("solana", <<10, 0>>, Null, Null, "", "", "", 0)>>
        ELSE <<>>)

BoostsTopResponses(w) ==
    IF w = "feeds" THEN SeqsUpTo(TopItems, 1) ELSE {<<>>}

AdsResponses(w) ==
    IF w = "feeds" THEN SeqsUpTo(AdItems, MaxFeed) ELSE {<<>>}

CtoResponses(w) ==
    IF w = "feeds" THEN SeqsUpTo(CtoItems, MaxFeed) ELSE {<<>>}

ProfilesResponses(w) ==
    IF w = "feeds" THEN SeqsUpTo(ProfileItems, 1) ELSE {<<>>}

\* A pair snapshot of token `t`: its metrics as the JSON carries them.
Pair(id, t, liq, v5, v1, v24, buys, sells, m5, h1, created) ==
    [ pairAddress   |-> <<id, t>>,
      baseToken     |-> <<t, 1>>,
      quoteToken    |-> SOL,
      liquidity_usd |-> liq,
      volume_m5     |-> v5,
      volume_h1     |-> v1,
      volume_h24    |-> v24,
      txns_m5_buys  |-> buys,
      txns_m5_sells |-> sells,
      priceChange_m5 |-> m5,
      priceChange_h1 |-> h1,
      pairCreatedAt |-> created ]

\* half an hour old, liquid, rising: meets every mode's thresholds in pump mode
PairA(t) == Pair("A", t, Num(20000), Num(300), Num(1500), Num(9000),
                 Num(5), Num(2), Num(5), Num(2), Num(NowMin - 30))
\* deeper and older: strict and degen only
PairB(t) == Pair("B", t, Str(30000), Num(600), Num(3000), Num(8000),
                 Num(6), Num(1), Num(1), Num(0), Num(NowMin - 2000))
\* young and thin: kept by the anti-dead filter, rejected by the trending one
PairY(t) == Pair("Y", t, Num(3000), Num(100), Num(400), Num(900),
                 Num(1), Num(1), Num(0), Num(0), Num(NowMin - 10))
\* older and thin: rejected by the anti-dead filter
PairW(t) == Pair("W", t, Num(4000), Num(100), Num(200), Num(500),
                 Num(2), Num(1), Num(3), Num(1), Num(NowMin - 100))
\* as liquid as A but falling: rejected by the trending filter for its m5 alone
PairD(t) == Pair("D", t, Num(20000), Num(300), Num(1500), Num(9000),
                 Num(5), Num(2), Num(-5), Num(2), Num(NowMin - 30))
\* a snapshot with a negative liquidity: never chosen as best pair
PairNeg(t) == Pair("N", t, Num(-5), Num(0), Num(0), Null,
                   Null, Null, Bad, Null, Null)

\* deep and active, with a creation timestamp that is missing or unusable
PairS(t, created) == Pair("S", t, Num(40000), Num(600), Num(3000), Num(9500),
                          Num(6), Num(1), Num(1), Num(0), created)

\* What a batched request may return for one requested token.  In a fifth
\* world, "stale", the provider's snapshots may lack a usable timestamp.
PairChoices(w, t) ==
    IF w = "feeds" THEN { <<PairA(t)>> }
    ELSE IF w = "stale"
    THEN { <<>>, <<PairA(t)>>, <<PairS(t, Null)>>, <<PairS(t, Bad)>>, <<PairS(t, Num(0))>>,
           <<PairS(t, Str(-5))>>, <<PairA(t), PairS(t, Null)>> }
    ELSE { <<>>, <<PairA(t)>>, <<PairB(t)>>, <<PairY(t)>>, <<PairW(t)>>,
           <<PairD(t)>>, <<PairNeg(t)>>, <<PairA(t), PairB(t)>> }

\* the bulk world's answer to a request that went through: a healthy pair
\* for every address asked for
BulkPairs(ch) == [i \in 1..Len(ch) |-> PairA(ch[i][1])]

\* In the bulk world a request fails as a whole (no pairs) or goes through.
RECURSIVE BatchResponses(_, _)
BatchResponses(w, ch) ==
    IF ch = <<>> THEN {<<>>}
    ELSE IF w = "bulk" THEN {<<>>, BulkPairs(ch)}
    ELSE IF w = "flood" THEN {<<>>}
    ELSE {mine \o rest : mine \in PairChoices(w, Head(ch)[1]),
                          rest \in BatchResponses(w, Tail(ch))}

\* what the single-token lookup may return; in the bulk world the provider
\* knows no pair of every third token
FallbackResponses(w, a) ==
    IF w = "bulk" THEN (IF a[1] % 3 = 0 THEN { <<>> } ELSE { <<PairA(a[1])>> })
    ELSE IF w = "flood" THEN { <<>> }
    ELSE { <<>>, <<PairA(a[1])>> }

\* What _http_get_json hands to fetch_orders_for_token: nothing usable (the
\* request failed, status >= 400, or the body is not a list), or a list of
\* n paid orders.
OrdersResponses ==
    { [kind |-> "fail", n |-> 0], [kind |-> "list", n |-> 0], [kind |-> "list", n |-> 2] }

\* the length of the list fetch_orders_for_token returns: [] unless the
\* data is a list
fetch_orders_for_token(data) == IF data.kind = "list" THEN data.n ELSE 0

-----------------------------------------------------------------------------
(* The candidate table: a dict keyed by the lowercased address, which      *)
(* keeps its insertion order.                                              *)

KeyIndex(table, key) ==
    IF \E i \in 1..Len(table) : Lower(table[i].tokenAddress) = key
    THEN CHOOSE i \in 1..Len(table) : Lower(table[i].tokenAddress) = key
    ELSE 0

TableGet(table, key) ==
    IF KeyIndex(table, key) = 0 THEN NoCand ELSE table[KeyIndex(table, key)]

TablePut(table, key, c) ==
    IF KeyIndex(table, key) = 0 THEN Append(table, c)
    ELSE [table EXCEPT ![KeyIndex(table, key)] = c]

\* key = c["tokenAddress"].lower()
\* table[key] = _merge_candidate(table.get(key, {}), c)
MergeOne(table, c) ==
    LET key == Lower(c.tokenAddress)
    IN  TablePut(table, key, _merge_candidate(TableGet(table, key), c))

\* for it in items: c = _candidate_from_..(it); if not c: continue; merge
RECURSIVE MergeAll(_, _)
MergeAll(table, cands) ==
    IF cands = <<>> THEN table
    ELSE MergeAll(MergeOne(table, Head(cands)), Tail(cands))

Collect(table, items, From(_)) ==
    LET kept == SelectSeq(items, ItemAccepted)
    IN  MergeAll(table, [i \in 1..Len(kept) |-> From(kept[i])])

\* _cand_priority: {"boosts": 3, "ads": 2, "cto": 1}.get(src, 0), boostAmount
_cand_priority(c) == <<Priority(c.source), c.boostAmount>>

\* a cut that keeps the candidates sorted last
CutCandidatesListFromEnd(table, candidates_max) ==
    LET sorted == SortDesc(table, _cand_priority)
        n      == Min(Max(1, candidates_max), Len(sorted))
    IN  SubSeq(sorted, Len(sorted) - n + 1, Len(sorted))

\* candidates.sort(key=_cand_priority, reverse=True)[: max(1, candidates_max)]
CutCandidatesList(table, candidates_max) ==
    Take(SortDesc(table, _cand_priority), Max(1, candidates_max))

-----------------------------------------------------------------------------
(* run_scan_for_modes, stage 1: collect the paid candidates                *)

Call(api, args) == [api |-> api, args |-> args]

\* The record of a scan that is to be repeated: while it is recorded, every
\* step adds where the scan went and the answer it consumed; while the scan
\* is repeated, every step moves one entry on.
Taped(t, pc_after, answer) ==
    IF t.mode = "record"
    THEN [t EXCEPT !.heard = Append(@, [pc |-> pc_after, resp |-> answer])]
    ELSE IF t.mode = "replay" THEN [t EXCEPT !.k = @ + 1]
    ELSE t

FetchBoosts ==
    /\ pc = "boosts"
    /\ \E latest \in (IF opts.include_boosts THEN BoostsLatestResponses(world) ELSE {<<>>}),
          top \in (IF opts.include_boosts /\ opts.pump_mode
                   THEN BoostsTopResponses(world) ELSE {<<>>}) :
         LET boosts_items == latest \o top
         IN  /\ candidates_by_token' =
                    Collect(candidates_by_token, boosts_items, _candidate_from_boost_item)
             /\ resp' = boosts_items
             /\ debug' = [debug EXCEPT !.boost_items_raw = Len(boosts_items)]
    /\ calls' = calls
                \o (IF opts.include_boosts
                    THEN <<Call("token_boosts_latest", <<>>)>> ELSE <<>>)
                \o (IF opts.include_boosts /\ opts.pump_mode
                    THEN <<Call("token_boosts_top", <<>>)>> ELSE <<>>)
    /\ pc' = "ads"
    /\ UNCHANGED <<opts, candidates, token_addrs, all_pairs, pairs_by_token,
                   batches, missing, rows, done, idx, why_filtered_list,
                   progress, trail, world, mrg, gate, ui>>
    /\ tape' = Taped(tape, pc', resp')

FetchAds ==
    /\ pc = "ads"
    /\ \E ads_items \in (IF opts.include_ads THEN AdsResponses(world) ELSE {<<>>}) :
         /\ candidates_by_token' =
                Collect(candidates_by_token, ads_items, _candidate_from_ad_item)
         /\ resp' = ads_items
         /\ debug' = [debug EXCEPT !.ads_items_raw = Len(ads_items)]
    /\ calls' = IF opts.include_ads THEN Append(calls, Call("ads_latest", <<>>))
                ELSE calls
    /\ pc' = "cto"
    /\ UNCHANGED <<opts, candidates, token_addrs, all_pairs, pairs_by_token,
                   batches, missing, rows, done, idx, why_filtered_list,
                   progress, trail, world, mrg, gate, ui>>
    /\ tape' = Taped(tape, pc', resp')

FetchCto ==
    /\ pc = "cto"
    /\ \E cto_items \in (IF opts.include_cto THEN CtoResponses(world) ELSE {<<>>}) :
         /\ candidates_by_token' =
                Collect(candidates_by_token, cto_items, _candidate_from_cto_item)
         /\ resp' = cto_items
         /\ debug' = [debug EXCEPT !.cto_items_raw = Len(cto_items)]
    /\ calls' = IF opts.include_cto THEN Append(calls, Call("cto_latest", <<>>))
                ELSE calls
    /\ pc' = "cut"
    /\ UNCHANGED <<opts, candidates, token_addrs, all_pairs, pairs_by_token,
                   batches, missing, rows, done, idx, why_filtered_list,
                   progress, trail, world, mrg, gate, ui>>
    /\ tape' = Taped(tape, pc', resp')

\* a scan that goes on without candidates
AfterCutGoesOn(cut) == "profiles"

\* if not candidates: debug["why"] = "no_candidates"; return [], debug
AfterCut(cut) == IF cut = <<>> THEN "done" ELSE "profiles"

\* sort, truncate, and return at once when nothing is left
CutCandidates ==
    /\ pc = "cut"
    /\ LET cut == CutCandidatesList(candidates_by_token, opts.candidates_max)
       IN  /\ candidates' = cut
           /\ debug' = [debug EXCEPT
                          !.candidates_unique = Len(cut),
                          !.why = IF cut = <<>> THEN "no_candidates" ELSE @]
           /\ pc' = AfterCut(cut)
    /\ resp' = <<>>
    /\ UNCHANGED <<opts, candidates_by_token, token_addrs, all_pairs,
                   pairs_by_token, batches, missing, rows, done, idx,
                   why_filtered_list, calls, progress, trail, world, mrg, gate, ui>>
    /\ tape' = Taped(tape, pc', resp')

-----------------------------------------------------------------------------
(* stage 2: profiles enrichment; then the batches of stage 3 are laid out  *)

\* profiles_idx[ta]: the entry of the last accepted profile item of that key
ProfileIdx(profiles, key) ==
    LET hits == {i \in 1..Len(profiles) :
                    /\ ItemAccepted(profiles[i])
                    /\ Lower(profiles[i].tokenAddress) = key}
    IN  IF hits = {} THEN NoCand
        ELSE ProfileEntry(profiles[CHOOSE i \in hits : \A j \in hits : j <= i])

\* for c in candidates: if ta in profiles_idx:
\*     candidates_by_token[ta] = _merge_candidate(c, profiles_idx[ta])
RECURSIVE Enrich(_, _, _)
Enrich(table, cands, profiles) ==
    IF cands = <<>> THEN table
    ELSE LET c   == Head(cands)
             ta  == Lower(c.tokenAddress)
             hit == ProfileIdx(profiles, ta)
         IN  Enrich(IF ta # EmptyAddr /\ hit # NoCand
                    THEN TablePut(table, ta, _merge_candidate(c, hit))
                    ELSE table,
                    Tail(cands), profiles)

\* [c.tokenAddress for c in candidates if c.tokenAddress], stripped, non-empty
TokenAddrs(cands) ==
    LET named == SelectSeq(cands, LAMBDA c : c.tokenAddress # EmptyAddr)
    IN  [i \in 1..Len(named) |-> named[i].tokenAddress]

\* the batch endpoint takes up to 30 addresses
ChunkSize == 30

\* chunks of one item more
RECURSIVE _chunks_one_more(_, _)
_chunks_one_more(items, n) ==
    IF items = <<>> THEN <<>>
    ELSE <<Take(items, n + 1)>>
         \o _chunks_one_more(SubSeq(items, Min(n + 1, Len(items)) + 1, Len(items)), n)

RECURSIVE _chunks(_, _)
_chunks(items, n) ==
    IF items = <<>> THEN <<>>
    ELSE <<Take(items, n)>> \o _chunks(SubSeq(items, Min(n, Len(items)) + 1, Len(items)), n)

EnrichProfiles ==
    /\ pc = "profiles"
    /\ \E profiles \in (IF opts.include_profiles
                        THEN ProfilesResponses(world) ELSE {<<>>}) :
         /\ candidates_by_token' = Enrich(candidates_by_token, candidates, profiles)
         /\ resp' = profiles
         /\ debug' = [debug EXCEPT !.profiles_raw = Len(profiles)]
    /\ calls' = IF opts.include_profiles
                THEN Append(calls, Call("profiles_latest", <<>>)) ELSE calls
    /\ token_addrs' = TokenAddrs(candidates)
    /\ batches' = _chunks(TokenAddrs(candidates), ChunkSize)
    /\ pc' = "batch"
    /\ UNCHANGED <<opts, candidates, all_pairs, pairs_by_token, missing, rows,
                   done, idx, why_filtered_list, progress, trail, world, mrg, gate, ui>>
    /\ tape' = Taped(tape, pc', resp')

-----------------------------------------------------------------------------
(* stage 3: pair resolution, batched then single-token fallback            *)

\* the lowercased addresses a pair may be indexed under
Keys(w) ==
    {<<t, 0>> : t \in IF w = "bulk" THEN BulkTokens \cup {9}
                      ELSE IF w = "flood" THEN FloodTokens \cup {9}
                      ELSE {1, 2, 3, 9}}

NoPairs(w) == [k \in Keys(w) |-> <<>>]

\* for p in all_pairs: pairs_by_token.setdefault(base_l, []).append(p) if
\* base_l, then the same for quote_l.  Every pair makes two entries, one
\* under its lowercased base address and one under its lowercased quote
\* address, in the order of the list; the list a key gets is the pairs of
\* the entries made under it, in that order, behind what it held before.
\* No key is the empty address, so an entry under it is kept nowhere.
IndexEntries(pairs) ==
    [i \in 1..(2 * Len(pairs)) |->
        LET p == pairs[(i + 1) \div 2]
        IN  [pair |-> p,
             key  |-> IF i % 2 = 1 THEN Lower(p.baseToken) ELSE Lower(p.quoteToken)]]

IndexPairs(index, pairs) ==
    [k \in DOMAIN index |->
        LET under == SelectSeq(IndexEntries(pairs), LAMBDA e : e.key = k)
        IN  index[k] \o [i \in 1..Len(under) |-> under[i].pair]]

\* a list of missing tokens that holds every token
MissingFromAll(index, addrs) == addrs

\* [a for a in token_addrs if a.lower() not in pairs_by_token]
MissingFrom(index, addrs) == SelectSeq(addrs, LAMBDA a : index[Lower(a)] = <<>>)

\* at most this many tokens are looked up one by one
FallbackMax == 15

\* One batched request.  After the last one the pairs are indexed and the
\* tokens the index lacks are listed.
FetchPairsBatch ==
    /\ pc = "batch"
    /\ batches # <<>>
    /\ \E pairs_chunk \in BatchResponses(world, Head(batches)) :
         LET all   == all_pairs \o pairs_chunk
             index == IndexPairs(NoPairs(world), all)
             miss  == Take(MissingFrom(index, token_addrs), FallbackMax)
             last  == Tail(batches) = <<>>
         IN  /\ all_pairs' = all
             /\ resp' = pairs_chunk
             /\ pairs_by_token' = IF last THEN index ELSE pairs_by_token
             /\ missing' = IF last THEN miss ELSE missing
             /\ debug' = IF last
                         THEN [debug EXCEPT
                                 !.pairs_returned = Len(all),
                                 !.tokens_missing_from_batch =
                                     Len(MissingFrom(index, token_addrs))]
                         ELSE debug
             /\ pc' = IF ~last THEN "batch"
                      ELSE IF miss # <<>> THEN "fallback" ELSE "tokens"
    /\ calls' = Append(calls, Call("pairs_batch", Head(batches)))
    /\ batches' = Tail(batches)
    /\ UNCHANGED <<opts, candidates_by_token, candidates, token_addrs, rows,
                   done, idx, why_filtered_list, progress, trail, world, mrg, gate, ui>>
    /\ tape' = Taped(tape, pc', resp')

\* One single-token lookup: if pairs_fb: setdefault(a.lower(), []).extend(pairs_fb)
FetchFallback ==
    /\ pc = "fallback"
    /\ missing # <<>>
    /\ LET a == Head(missing)
       IN  /\ \E pairs_fb \in FallbackResponses(world, a) :
                /\ pairs_by_token' = [pairs_by_token EXCEPT ![Lower(a)] = @ \o pairs_fb]
                /\ resp' = pairs_fb
           /\ calls' = Append(calls, Call("pairs_fallback", <<a>>))
    /\ missing' = Tail(missing)
    /\ pc' = IF Tail(missing) = <<>> THEN "tokens" ELSE "fallback"
    /\ UNCHANGED <<opts, candidates_by_token, candidates, token_addrs, all_pairs,
                   batches, rows, done, idx, why_filtered_list, debug, progress,
                   trail, world, mrg, gate, ui>>
    /\ tape' = Taped(tape, pc', resp')

-----------------------------------------------------------------------------
(* stage 4: best pair, metrics, score, filters, mode gating - one token    *)

NoRow == [absent |-> TRUE]

\* best = None; best_key = (-1.0, -1.0); for p in pairs: if key > best_key: ...
RECURSIVE BestFrom(_, _, _)
BestFrom(best, best_key, pairs) ==
    IF pairs = <<>> THEN best
    ELSE LET p   == Head(pairs)
             key == <<_safe_float(p.liquidity_usd, 0), _safe_float(p.volume_h24, 0)>>
         IN  IF LexGt(key, best_key)
             THEN BestFrom(p, key, Tail(pairs))
             ELSE BestFrom(best, best_key, Tail(pairs))

BestPair(pairs) == BestFrom(NoRow, <<-1, -1>>, pairs)

\* base_row: the metrics of the best pair, the candidate's fields, the scores.
\* orders_count = -1 stands for a row that has no orders_count key yet.
BaseRow(token_addr, best, cand, pump_mode) ==
    LET m   == compute_metrics_from_pair(best)
        has == cand # NoCand
        withCand ==
            [ tokenAddress |-> token_addr,
              mode         |-> "",
              pairAddress  |-> m.pairAddress,
              liquidityUsd |-> m.liquidityUsd,
              vol5m        |-> m.vol5m,
              vol1h        |-> m.vol1h,
              vol24h       |-> m.vol24h,
              buys5m       |-> m.buys5m,
              sells5m      |-> m.sells5m,
              netBuy5m     |-> m.netBuy5m,
              m5pct        |-> m.m5pct,
              h1pct        |-> m.h1pct,
              ageMin       |-> m.ageMin,
              turnover_1h_over_liq |-> m.turnover_1h_over_liq,
              source       |-> IF has THEN cand.source ELSE "",
              sources      |-> IF has THEN cand.sources ELSE <<>>,
              boostAmount  |-> IF has THEN cand.boostAmount ELSE 0,
              boostTotal   |-> IF has THEN cand.boostTotal ELSE 0,
              isCTO        |-> IF has THEN cand.isCTO ELSE FALSE,
              profileUrl   |-> IF has THEN cand.profileUrl ELSE "",
              score        |-> 0,
              spike_score  |-> 0,
              orders_count |-> -1,
              isDexPaid    |-> FALSE ]
        sc  == score_pair(withCand, pump_mode)
    IN  [withCand EXCEPT !.score = sc.score, !.spike_score = sc.spike_score]

\* a mode loop that stops at the first mode the token qualifies for
RECURSIVE ModeRowsFirstOnly(_, _, _)
ModeRowsFirstOnly(base_row, modes, pump_mode) ==
    IF modes = <<>> THEN <<>>
    ELSE IF ModeQualifies(base_row, Head(modes), pump_mode)
         THEN <<[base_row EXCEPT !.mode = Head(modes)]>>
         ELSE ModeRowsFirstOnly(base_row, Tail(modes), pump_mode)

\* for mode in opts.selected_modes: ... rows.append(row with row["mode"] = mode)
RECURSIVE ModeRows(_, _, _)
ModeRows(base_row, modes, pump_mode) ==
    IF modes = <<>> THEN <<>>
    ELSE (IF ModeQualifies(base_row, Head(modes), pump_mode)
          THEN <<[base_row EXCEPT !.mode = Head(modes)]>> ELSE <<>>)
         \o ModeRows(base_row, Tail(modes), pump_mode)

\* What the loop body does with one token: the branch that ends it, the
\* base row (when one was built), the rejection reasons, the rows it adds.
Outcome(token_addr) ==
    LET ta_l  == Lower(token_addr)
        pairs == pairs_by_token[ta_l]
        best  == BestPair(pairs)
        base  == BaseRow(token_addr, best, TableGet(candidates_by_token, ta_l),
                         opts.pump_mode)
        reasons == _trending_reasons(base, opts)
    IN  IF pairs = <<>>
        THEN [branch |-> "no_pairs", base |-> NoRow,
              reasons |-> {"no_pairs_returned"}, logged |-> TRUE, new |-> <<>>]
        ELSE IF best = NoRow
        THEN [branch |-> "no_best", base |-> NoRow,
              reasons |-> {}, logged |-> FALSE, new |-> <<>>]
        ELSE IF opts.anti_dead /\ ~_anti_dead_pass(base, opts)
        THEN [branch |-> "anti_dead", base |-> base,
              reasons |-> {"anti_dead"}, logged |-> TRUE, new |-> <<>>]
        ELSE IF opts.trending_filters /\ reasons # {}
        THEN [branch |-> "trending", base |-> base,
              reasons |-> reasons, logged |-> TRUE, new |-> <<>>]
        ELSE [branch |-> "modes", base |-> base,
              reasons |-> {}, logged |-> FALSE,
              new |-> ModeRows(base, opts.selected_modes, opts.pump_mode)]

\* a callback that is told the count before the increment
ProgressAfterStale(calls_so_far, done_now, total) ==
    IF opts.progress_callback THEN Append(calls_so_far, <<done_now - 1, total>>)
    ELSE calls_so_far

\* done += 1; if opts.progress_callback: opts.progress_callback(done, total)
ProgressAfter(calls_so_far, done_now, total) ==
    IF opts.progress_callback THEN Append(calls_so_far, <<done_now, total>>)
    ELSE calls_so_far

ProcessToken ==
    /\ pc = "tokens"
    /\ idx < Len(token_addrs)
    /\ LET token_addr == token_addrs[idx + 1]
           out        == Outcome(token_addr)
       IN  /\ rows' = rows \o out.new
           /\ why_filtered_list' =
                  IF opts.verbose_debug /\ out.logged
                  THEN Append(why_filtered_list,
                              [tokenAddress |-> token_addr, reason |-> out.reasons])
                  ELSE why_filtered_list
           /\ trail' = Append(trail, [tokenAddress |-> token_addr,
                                      branch |-> out.branch, base |-> out.base])
    /\ done' = done + 1
    /\ progress' = ProgressAfter(progress, done + 1, Len(token_addrs))
    /\ idx' = idx + 1
    /\ pc' = IF idx + 1 = Len(token_addrs) THEN "rank" ELSE "tokens"
    /\ resp' = <<>>
    /\ UNCHANGED <<opts, candidates_by_token, candidates, token_addrs, all_pairs,
                   pairs_by_token, batches, missing, debug, calls, world, mrg, gate, ui>>
    /\ tape' = Taped(tape, pc', resp')

-----------------------------------------------------------------------------
(* stage 5: ranking, unique-per-token reduction, truncation                *)

\* a rank key that ignores sort_by_spike
_rank_key_by_score(r) == << r.score, r.score, r.liquidityUsd >>

\* (spike_score if sort_by_spike else score, score, liquidityUsd)
_rank_key(r) ==
    << IF opts.sort_by_spike THEN r.spike_score ELSE r.score, r.score, r.liquidityUsd >>

\* rows.sort(key=_rank_key, reverse=True)
RankSort(rs) == SortDesc(rs, _rank_key)

\* a reduction that never finds the address already kept
RECURSIVE FirstPerTokenKeepsAll(_, _)
FirstPerTokenKeepsAll(kept, rs) ==
    IF rs = <<>> THEN kept
    ELSE FirstPerTokenKeepsAll(Append(kept, Head(rs)), Tail(rs))

\* best_per_token: the first row met for each lowercased address, in the
\* order the addresses were first met
RECURSIVE FirstPerToken(_, _)
FirstPerToken(kept, rs) ==
    IF rs = <<>> THEN kept
    ELSE LET ta == Lower(Head(rs).tokenAddress)
         IN  FirstPerToken(IF ta # EmptyAddr
                              /\ \A i \in 1..Len(kept) : Lower(kept[i].tokenAddress) # ta
                           THEN Append(kept, Head(rs)) ELSE kept,
                           Tail(rs))

UniquePerToken(rs) == RankSort(FirstPerToken(<<>>, rs))

\* a slice that is one row too long
TrimOneMore(rs) == Take(rs, Max(1, opts.top_n) + 1)

\* rows[: max(1, opts.top_n)]
Trim(rs) == Take(rs, Max(1, opts.top_n))

Ranked(rs) ==
    Trim(IF opts.unique_per_token THEN UniquePerToken(RankSort(rs)) ELSE RankSort(rs))

\* After the token loop: the debug counts, the early return on an empty
\* row list, else sort / reduce / trim.
RankDedupe ==
    /\ pc = "rank"
    /\ debug' = [debug EXCEPT
                   !.rows_after_filters = Len(rows),
                   !.has_why_filtered_list = opts.verbose_debug,
                   !.why_filtered_list = IF opts.verbose_debug
                                         THEN Take(why_filtered_list, 400) ELSE <<>>]
    /\ rows' = IF rows = <<>> THEN <<>> ELSE Ranked(rows)
    /\ idx' = 0
    /\ pc' = IF rows # <<>> /\ opts.include_orders THEN "orders" ELSE "done"
    /\ UNCHANGED <<opts, candidates_by_token, candidates, token_addrs, all_pairs,
                   pairs_by_token, batches, missing, done, why_filtered_list,
                   calls, progress, resp, trail, world, mrg, gate, ui>>
    /\ tape' = Taped(tape, pc', resp')

-----------------------------------------------------------------------------
(* stage 6: paid orders, for the finalists only                            *)

\* a row marked as paid whenever the lookup was made
WithOrdersAlwaysPaid(r, orders) ==
    [r EXCEPT !.orders_count = orders, !.isDexPaid = TRUE]

\* r["orders_count"] = len(orders); r["isDexPaid"] = bool(orders)
WithOrders(r, orders) ==
    [r EXCEPT !.orders_count = orders, !.isDexPaid = orders > 0]

FetchOrders ==
    /\ pc = "orders"
    /\ idx < Len(rows)
    /\ LET r == rows[idx + 1]
       IN  /\ \E data \in OrdersResponses :
                /\ rows' = [rows EXCEPT ![idx + 1] =
                              WithOrders(r, fetch_orders_for_token(data))]
                /\ resp' = data
           /\ calls' = Append(calls, Call("orders", <<r.tokenAddress>>))
    /\ idx' = idx + 1
    /\ pc' = IF idx + 1 = Len(rows) THEN "done" ELSE "orders"
    /\ UNCHANGED <<opts, candidates_by_token, candidates, token_addrs, all_pairs,
                   pairs_by_token, batches, missing, done, why_filtered_list,
                   debug, progress, trail, world, mrg, gate, ui>>
    /\ tape' = Taped(tape, pc', resp')

-----------------------------------------------------------------------------
(* The scan as a whole                                                     *)

ModeLists ==
    { <<"early_strict", "early", "strict", "degen">>,
      <<"degen", "strict">>,
      <<"ultra_early", "turbo">> }

TopNs == {1, 2, 20}

\* The options a scan may be called with.  Every set varies some of the
\* keyword arguments and leaves the others at their defaults.
FeedOpts ==
    { [DefaultOpts EXCEPT
          !.include_boosts = ib, !.include_ads = ia, !.include_cto = ic,
          !.include_profiles = ip, !.pump_mode = pm, !.candidates_max = cm,
          !.selected_modes = ml, !.progress_callback = TRUE] :
      ib \in BOOLEAN, ia \in BOOLEAN, ic \in BOOLEAN, ip \in BOOLEAN,
      pm \in BOOLEAN, cm \in {0, 2, 250},
      ml \in { <<"early_strict", "early", "strict", "degen">>, <<"degen">> } }

FilterOpts ==
    { [DefaultOpts EXCEPT
          !.selected_modes = ml, !.anti_dead = ad, !.trending_filters = tf,
          !.pump_mode = pm, !.unique_per_token = up,
          !.progress_callback = TRUE] :
      ml \in ModeLists, ad \in BOOLEAN, tf \in BOOLEAN, pm \in BOOLEAN,
      up \in BOOLEAN }

RankOpts ==
    { [DefaultOpts EXCEPT
          !.top_n = tn, !.unique_per_token = up, !.include_orders = io,
          !.sort_by_spike = ss, !.pump_mode = pm, !.anti_dead = FALSE,
          !.trending_filters = tf, !.progress_callback = TRUE] :
      tn \in TopNs, up \in BOOLEAN, io \in BOOLEAN, ss \in BOOLEAN,
      pm \in BOOLEAN, tf \in BOOLEAN }

DebugOpts ==
    { [DefaultOpts EXCEPT
          !.verbose_debug = vd, !.progress_callback = cb, !.anti_dead = ad,
          !.trending_filters = tf, !.pump_mode = TRUE] :
      vd \in BOOLEAN, cb \in BOOLEAN, ad \in BOOLEAN, tf \in BOOLEAN }

OptsOf(w) ==
    IF w = "feeds" THEN FeedOpts ELSE FilterOpts \cup RankOpts \cup DebugOpts

EmptyDebug ==
    [ why |-> "", boost_items_raw |-> 0, ads_items_raw |-> 0, cto_items_raw |-> 0,
      candidates_unique |-> 0, profiles_raw |-> 0, pairs_returned |-> 0,
      tokens_missing_from_batch |-> 0, rows_after_filters |-> 0,
      has_why_filtered_list |-> FALSE, why_filtered_list |-> <<>> ]

ScanStart ==
    /\ candidates_by_token = <<>>
    /\ candidates = <<>>
    /\ token_addrs = <<>>
    /\ all_pairs = <<>>
    /\ pairs_by_token = NoPairs(world)
    /\ batches = <<>>
    /\ missing = <<>>
    /\ rows = <<>>
    /\ done = 0
    /\ idx = 0
    /\ why_filtered_list = <<>>
    /\ debug = EmptyDebug
    /\ calls = <<>>
    /\ progress = <<>>
    /\ resp = <<>>
    /\ trail = <<>>

MergeIdle == mrg = [recs |-> <<>>, i |-> 0, acc |-> NoCand]
GateIdle == gate = [stage |-> "idle"]
UiIdle == ui = [phase |-> "off"]

\* no scan is being repeated: nothing is put on record
TapeOff == tape = [mode |-> "off"]

Init ==
    /\ pc = "boosts"
    /\ world \in Worlds
    /\ opts \in OptsOf(world)
    /\ ScanStart
    /\ MergeIdle
    /\ GateIdle
    /\ UiIdle
    /\ TapeOff

Next ==
    \/ FetchBoosts
    \/ FetchAds
    \/ FetchCto
    \/ CutCandidates
    \/ EnrichProfiles
    \/ FetchPairsBatch
    \/ FetchFallback
    \/ ProcessToken
    \/ RankDedupe
    \/ FetchOrders

Spec == Init /\ [][Next]_vars

-----------------------------------------------------------------------------
(* _merge_candidate on its own: records of one token folded in any order   *)

\* longest sequence of records folded
MaxMerge == 3

\* what the three feeds and the profile index can hold for token 1
MergePool ==
    { _candidate_from_boost_item(Item("solana", <<1, 1>>, Num(50), Null, "x", "u1", "", 0)),
      _candidate_from_boost_item(Item("sol", <<1, 0>>, Str(10), Num(70), "", "", "", 0)),
      _candidate_from_ad_item(Item("solana", <<1, 0>>, Null, Null, "", "u2", "", 0)),
      _candidate_from_cto_item(Item("solana", <<1, 0>>, Null, Null, "", "", "d1", 2)),
      ProfileEntry([Item("solana", <<1, 1>>, Null, Null, "", "u3", "d3", 3)
                      EXCEPT !.icon = "i3"]) }

MergeInit ==
    /\ pc = "idle"
    /\ world = "feeds"
    /\ opts = DefaultOpts
    /\ ScanStart
    /\ GateIdle
    /\ mrg \in {[recs |-> rs, i |-> 0, acc |-> NoCand] : rs \in SeqsUpTo(MergePool, MaxMerge)}
    /\ UiIdle
    /\ TapeOff

\* candidates_by_token[key] = _merge_candidate(candidates_by_token.get(key, {}), c)
MergeStep ==
    /\ mrg.i < Len(mrg.recs)
    /\ mrg' = [mrg EXCEPT !.i = @ + 1,
                          !.acc = _merge_candidate(mrg.acc, mrg.recs[mrg.i + 1])]
    /\ UNCHANGED <<opts, gate, ui, tape>>
    /\ UNCHANGED scanVars

SpecMerge == MergeInit /\ [][MergeStep]_vars

-----------------------------------------------------------------------------
(* The per-token chain on its own: one pair snapshot is turned into a row, *)
(* scored, and put through the two filters and the mode gate.              *)

GateValues ==
    [ liq     |-> {Null, Num(1000), Num(2500), Num(20000), Str(30000)},
      v5      |-> {Num(0), Num(300), Num(600)},
      v1      |-> {Num(0), Num(1500)},
      buys    |-> {Null, Num(5)},
      m5      |-> {Num(-5), Num(5)},
      created |-> {Null, Bad, Num(0), Num(-5), Str(NowMin - 30),
                   Num(NowMin + 5), Num(NowMin - 30),
                   Num(NowMin - 60), Num(NowMin - 61), Num(NowMin - 90),
                   Num(NowMin - 91), Num(NowMin - 20000)} ]

GatePairs ==
    { Pair("G", 1, liq, v5, v1, Num(0), buys, Num(2), m5, Num(2), created) :
        liq \in GateValues.liq, v5 \in GateValues.v5, v1 \in GateValues.v1,
        buys \in GateValues.buys, m5 \in GateValues.m5,
        created \in GateValues.created }

GateOpts ==
    { [DefaultOpts EXCEPT !.pump_mode = pm, !.trending_min_liquidity = tl] :
        pm \in BOOLEAN, tl \in {0, 15000} }

GateInit ==
    /\ pc = "idle"
    /\ world = "market"
    /\ opts \in GateOpts
    /\ ScanStart
    /\ MergeIdle
    /\ gate \in { [stage |-> "pair", pair |-> p, cand |-> c, row |-> NoRow,
                   anti_dead_pass |-> FALSE, reasons |-> {}, modes |-> {}] :
                  p \in GatePairs,
                  c \in { NoCand,
                          _candidate_from_boost_item(
                              Item("solana", <<1, 1>>, Num(50), Null, "x", "u1", "", 0)) } }
    /\ UiIdle
    /\ TapeOff

\* base_row = {...}; base_row.update(compute_metrics_from_pair(best)); ...;
\* base_row.update(score_pair(base_row, pump_mode=opts.pump_mode))
GateBuildRow ==
    /\ gate.stage = "pair"
    /\ gate' = [gate EXCEPT
                  !.stage = "row",
                  !.row = BaseRow(<<1, 1>>, gate.pair, gate.cand, opts.pump_mode)]
    /\ UNCHANGED <<opts, mrg, ui, tape>>
    /\ UNCHANGED scanVars

GateAntiDead ==
    /\ gate.stage = "row"
    /\ gate' = [gate EXCEPT !.stage = "anti_dead",
                            !.anti_dead_pass = _anti_dead_pass(gate.row, opts)]
    /\ UNCHANGED <<opts, mrg, ui, tape>>
    /\ UNCHANGED scanVars

GateTrending ==
    /\ gate.stage = "anti_dead"
    /\ gate' = [gate EXCEPT !.stage = "trending",
                            !.reasons = _trending_reasons(gate.row, opts)]
    /\ UNCHANGED <<opts, mrg, ui, tape>>
    /\ UNCHANGED scanVars

GateModes ==
    /\ gate.stage = "trending"
    /\ gate' = [gate EXCEPT
                  !.stage = "modes",
                  !.modes = {m \in KnownModes : ModeQualifies(gate.row, m, opts.pump_mode)}]
    /\ UNCHANGED <<opts, mrg, ui, tape>>
    /\ UNCHANGED scanVars

GateNext == GateBuildRow \/ GateAntiDead \/ GateTrending \/ GateModes

SpecGate == GateInit /\ [][GateNext]_vars

\* The same chain on pairs whose liquidity is a mode's minimum, or just
\* below the least of them, with the other metrics low or healthy.
FloorInit ==
    /\ pc = "idle"
    /\ world = "market"
    /\ opts \in { [DefaultOpts EXCEPT !.pump_mode = pm] : pm \in BOOLEAN }
    /\ ScanStart
    /\ MergeIdle
    /\ gate \in { [stage |-> "pair",
                   pair |-> Pair("F", 1, Num(liq), v5, v1, Num(0), buys, Num(2),
                                 m5, Num(0), Num(NowMin - 30)),
                   cand |-> NoCand, row |-> NoRow,
                   anti_dead_pass |-> FALSE, reasons |-> {}, modes |-> {}] :
                  liq \in {2499} \cup { ModeTable(m, pm).min_liq :
                                           m \in KnownModes, pm \in BOOLEAN },
                  v5 \in {Num(0), Num(600)},
                  v1 \in {Num(-100000), Num(0), Num(1500)},
                  buys \in {Null, Num(5)},
                  m5 \in {Num(-5), Num(5)} }
    /\ UiIdle
    /\ TapeOff

SpecFloor == FloorInit /\ [][GateNext]_vars

-----------------------------------------------------------------------------
(* score_pair on its own, given metrics as they may arrive                 *)

ScoreValues ==
    [ liquidityUsd |-> {Null, Num(0), Num(-5), Str(20000), PosInf, NaN},
      vol1h        |-> {Num(0), Str(1500), PosInf},
      netBuy5m     |-> {Num(3), Bad, PosInf},
      m5pct        |-> {Num(0), Num(5), PosInf, NaN},
      h1pct        |-> {Num(-2), Bad, NegInf},
      turnover_1h_over_liq |-> {Null, Num(750), NegInf} ]

ScoreRows ==
    { [liquidityUsd |-> a, vol1h |-> b, netBuy5m |-> c, m5pct |-> d, h1pct |-> e,
       turnover_1h_over_liq |-> f] :
        a \in ScoreValues.liquidityUsd, b \in ScoreValues.vol1h,
        c \in ScoreValues.netBuy5m, d \in ScoreValues.m5pct,
        e \in ScoreValues.h1pct, f \in ScoreValues.turnover_1h_over_liq }

ScoreInit ==
    /\ pc = "idle"
    /\ world = "market"
    /\ opts \in {[DefaultOpts EXCEPT !.pump_mode = pm] : pm \in BOOLEAN}
    /\ ScanStart
    /\ MergeIdle
    /\ gate \in {[stage |-> "metrics", metrics |-> m] : m \in ScoreRows}
    /\ UiIdle
    /\ TapeOff

\* score_pair(row, pump_mode=opts.pump_mode)
ScorePair ==
    /\ gate.stage = "metrics"
    /\ gate' = [stage |-> "scored", metrics |-> gate.metrics,
                out |-> score_pair_class(gate.metrics, opts.pump_mode)]
    /\ UNCHANGED <<opts, mrg, ui, tape>>
    /\ UNCHANGED scanVars

SpecScore == ScoreInit /\ [][ScorePair]_vars

-----------------------------------------------------------------------------
(* The batched tier of pair resolution on its own, in the bulk world: a    *)
(* scan with default options has collected n boosted tokens and is about   *)
(* to send its batched requests.  The n tokens differ, so the first        *)
(* mention of each put one candidate into the table, in feed order; a      *)
(* second mention was merged into the candidate it found.  The candidates  *)
(* are of equal priority and fewer than candidates_max, so the stable      *)
(* sort and the cut left the list as the table had it.                     *)

\* the defaults, with the trending filter on or off
BulkOpts == { [DefaultOpts EXCEPT !.trending_filters = tf] : tf \in BOOLEAN }

AtBatches(n, again) ==
    /\ pc = "batch"
    /\ LET items  == BulkFeed(n, again)
           firsts == [i \in 1..n |-> _candidate_from_boost_item(items[i])]
           table  == IF again
                     THEN MergeOne(firsts, _candidate_from_boost_item(items[n + 1]))
                     ELSE firsts
       IN  /\ candidates_by_token = table
           /\ candidates = table
           /\ token_addrs = TokenAddrs(table)
           /\ batches = _chunks(TokenAddrs(table), ChunkSize)
           /\ debug = [EmptyDebug EXCEPT
                         !.boost_items_raw = Len(items),
                         !.candidates_unique = Len(table)]
    /\ calls = << Call("token_boosts_latest", <<>>), Call("cto_latest", <<>>),
                  Call("profiles_latest", <<>>) >>
    /\ all_pairs = <<>>
    /\ pairs_by_token = NoPairs(world)
    /\ missing = <<>>
    /\ rows = <<>>
    /\ done = 0
    /\ idx = 0
    /\ why_filtered_list = <<>>
    /\ progress = <<>>
    /\ resp = <<>>
    /\ trail = <<>>
    /\ MergeIdle
    /\ GateIdle
    /\ UiIdle

BatchInit ==
    /\ world = "bulk"
    /\ opts \in BulkOpts
    /\ \E n \in 1..MaxBulk, again \in BOOLEAN : AtBatches(n, again)
    /\ TapeOff

SpecBatch == BatchInit /\ [][FetchPairsBatch]_vars

\* both tiers of pair resolution and the token loop behind them
TiersNext ==
    \/ FetchPairsBatch
    \/ FetchFallback
    \/ ProcessToken

SpecTiers == BatchInit /\ [][TiersNext]_vars

-----------------------------------------------------------------------------
(* The scan of the stale world, for any filter flags and requested modes,  *)
(* names that _mode_thresholds does not know included.                     *)

StaleOpts ==
    { [DefaultOpts EXCEPT
          !.anti_dead = ad, !.trending_filters = tf, !.pump_mode = pm,
          !.selected_modes = ml, !.include_orders = TRUE] :
      ad \in BOOLEAN, tf \in BOOLEAN, pm \in BOOLEAN,
      ml \in ModeLists \cup { <<"moon">>, <<>> } }

StaleInit ==
    /\ pc = "boosts"
    /\ world = "stale"
    /\ opts \in StaleOpts
    /\ ScanStart
    /\ MergeIdle
    /\ GateIdle
    /\ UiIdle
    /\ TapeOff

SpecStale == StaleInit /\ [][Next]_vars

-----------------------------------------------------------------------------
(* Two scans that differ in verbose_debug only.  The first scan is put on  *)
(* record: where it went, step by step, and what the provider answered.    *)
(* When it has returned, the scan is run again with verbose_debug flipped  *)
(* and is given the recorded answers.  Beside the twins, a scan of the     *)
(* flood world runs once: its tokens outnumber the entries the debug       *)
(* record may list.                                                        *)

\* a large candidates_max (the slider's maximum), verbose_debug either way
FloodOpts ==
    { [DefaultOpts EXCEPT !.candidates_max = 1000, !.verbose_debug = vd] :
      vd \in BOOLEAN }

\* the first scan's options: with or without the paid-orders lookups
TwinOpts ==
    { [o EXCEPT !.include_orders = io] : o \in DebugOpts, io \in BOOLEAN }

TwinInit ==
    \/ /\ pc = "boosts"
       /\ world = "market"
       /\ opts \in TwinOpts
       /\ ScanStart
       /\ MergeIdle
       /\ GateIdle
       /\ UiIdle
       /\ tape = [mode |-> "record", heard |-> <<>>, k |-> 0,
                  rows |-> <<>>, calls |-> <<>>]
    \/ /\ world = "flood"
       /\ opts \in FloodOpts
       /\ \E n \in (MaxFlood - 1)..MaxFlood : AtBatches(n, FALSE)
       /\ TapeOff

\* a step of the scan; the repeated scan hears what the first one heard
TwinScan ==
    /\ Next
    /\ tape.mode = "replay" =>
           /\ tape.k < Len(tape.heard)
           /\ resp' = tape.heard[tape.k + 1].resp

\* the first scan has returned: its rows and calls are kept, and the scan
\* starts again with verbose_debug the other way
Restart ==
    /\ pc = "done"
    /\ tape.mode = "record"
    /\ tape' = [tape EXCEPT !.mode = "replay", !.rows = rows, !.calls = calls]
    /\ opts' = [opts EXCEPT !.verbose_debug = ~@]
    /\ pc' = "boosts"
    /\ candidates_by_token' = <<>>
    /\ candidates' = <<>>
    /\ token_addrs' = <<>>
    /\ all_pairs' = <<>>
    /\ pairs_by_token' = NoPairs(world)
    /\ batches' = <<>>
    /\ missing' = <<>>
    /\ rows' = <<>>
    /\ done' = 0
    /\ idx' = 0
    /\ why_filtered_list' = <<>>
    /\ debug' = EmptyDebug
    /\ calls' = <<>>
    /\ progress' = <<>>
    /\ resp' = <<>>
    /\ trail' = <<>>
    /\ UNCHANGED <<world, mrg, gate, ui>>

TwinNext == TwinScan \/ Restart

SpecTwin == TwinInit /\ [][TwinNext]_vars

-----------------------------------------------------------------------------
(* The application (src/app.py): what one press of the scan button does to *)
(* the session state and to the persisted configuration.  The scan itself  *)
(* is the call of run_scan_for_modes; here it either returns a list of     *)
(* rows (named by their token) and a debug record, or raises.              *)

\* presses of the scan button followed
MaxClicks == 3

\* st.session_state["last_scan_debug"]
NoDebug == [kind |-> "none"]
ScanDebug(n) == [kind |-> "debug", rows |-> n]
ErrorDebug(e) == [kind |-> "error", error |-> e]

\* what run_scan_for_modes may return to the application, and raise
Runners == {<<>>, <<1>>, <<2, 1>>}
ScanErrors == {"AttributeError", "KeyError"}

\* the time a press happens at, as the timestamp string that would be stored
Stamp(clicks) == 10 + clicks

UiInit ==
    /\ pc = "idle"
    /\ world = "market"
    /\ opts = DefaultOpts
    /\ ScanStart
    /\ MergeIdle
    /\ GateIdle
    /\ ui \in { [phase |-> "shown", clicks |-> 0, outcome |-> "none",
                 token_blacklist_entries |-> bl,
                 last_scan_debug |-> NoDebug, last_scan_df |-> <<>>,
                 last_scan_ts |-> ts, ts_before |-> ts, message |-> ""] :
                bl \in {{}, {1}}, ts \in {0, 5} }
    /\ TapeOff

\* the frame of one press: the script reruns from the top
Press(u) == [u EXCEPT !.clicks = @ + 1, !.ts_before = u.last_scan_ts]

\* if not modes: st.warning(...)
ScanWithoutModes ==
    /\ ui.phase = "shown"
    /\ ui.clicks < MaxClicks
    /\ ui' = [Press(ui) EXCEPT !.outcome = "no_modes", !.message = "warning"]
    /\ UNCHANGED <<opts, mrg, gate, tape>>
    /\ UNCHANGED scanVars

\* runners = [r for r in runners if r's tokenAddress not in blocked]
RECURSIVE NotBlocked(_, _)
NotBlocked(runners, blocked) ==
    IF runners = <<>> THEN <<>>
    ELSE (IF Head(runners) \in blocked THEN <<>> ELSE <<Head(runners)>>)
         \o NotBlocked(Tail(runners), blocked)

\* the try body after the call returned: blacklist, session state, and
\* cfg["last_scan_ts"] = now; save_config(cfg)
OnScanReturned(u, runners, dbg) ==
    [u EXCEPT !.outcome = "returned",
              !.message = "success",
              !.last_scan_debug = dbg,
              !.last_scan_df = NotBlocked(runners, u.token_blacklist_entries),
              !.last_scan_ts = Stamp(u.clicks)]

\* an except clause that leaves the rows of the previous scan on display
OnScanRaisedKeepsRows(u, e) ==
    [u EXCEPT !.outcome = "raised",
              !.message = "error",
              !.last_scan_debug = ErrorDebug(e)]

\* except Exception as e: last_scan_debug = {"error": repr(e)};
\* last_scan_df = pd.DataFrame(); st.error(...)
OnScanRaised(u, e) ==
    [u EXCEPT !.outcome = "raised",
              !.message = "error",
              !.last_scan_debug = ErrorDebug(e),
              !.last_scan_df = <<>>]

ScanReturned ==
    /\ ui.phase = "shown"
    /\ ui.clicks < MaxClicks
    /\ \E runners \in Runners :
           ui' = OnScanReturned(Press(ui), runners, ScanDebug(Len(runners)))
    /\ UNCHANGED <<opts, mrg, gate, tape>>
    /\ UNCHANGED scanVars

ScanRaised ==
    /\ ui.phase = "shown"
    /\ ui.clicks < MaxClicks
    /\ \E e \in ScanErrors : ui' = OnScanRaised(Press(ui), e)
    /\ UNCHANGED <<opts, mrg, gate, tape>>
    /\ UNCHANGED scanVars

UiNext == ScanWithoutModes \/ ScanReturned \/ ScanRaised

SpecUi == UiInit /\ [][UiNext]_vars

-----------------------------------------------------------------------------
(* Stage 5 on rows whose scores need not be numbers.  _safe_float lets a   *)
(* 'nan' of the provider through, so a row's score may be NaN (a volume.h1 *)
(* of 'nan' gives a NaN score beside a finite spike_score and liquidity).  *)
(* Here a score is Num(n) or NaN, and the sort is the interpreter's        *)
(* list.sort as it proceeds on a list of fewer than 64 elements: reverse   *)
(* the list, take the run at its start, insert the rest one by one by      *)
(* binary search, reverse again.  Only "<" between keys is ever asked.     *)

\* a < b on floats: false as soon as one of them is NaN
FloatLt(a, b) == a.t = "num" /\ b.t = "num" /\ a.v < b.v

\* the equality tuple comparison tests first: the same object, or equal
\* numbers (the rows of one token share their score objects)
FloatSame(a, b, same_object) ==
    same_object \/ (a.t = "num" /\ b.t = "num" /\ a.v = b.v)

\* x < y on keyed rows: the first components that are not the same decide
RECURSIVE TupleLt(_, _, _)
TupleLt(a, b, same_object) ==
    IF a = <<>> \/ b = <<>> THEN Len(a) < Len(b)
    ELSE IF FloatSame(a[1], b[1], same_object)
         THEN TupleLt(Tail(a), Tail(b), same_object)
         ELSE FloatLt(a[1], b[1])

KeyLt(x, y) == TupleLt(x.key, y.key, x.of = y.of)

\* list.sort(reverse=True) on a list of keyed elements [of, key, row]
ListSortReverse(keyed) ==
    LET Reverse(s) == [i \in 1..Len(s) |-> s[Len(s) + 1 - i]]
        \* the run at the start of the list: strictly descending (then
        \* reversed in place) or non-descending
        RECURSIVE RunDown(_, _)
        RunDown(s, n) ==
            IF n < Len(s) /\ KeyLt(s[n + 1], s[n]) THEN RunDown(s, n + 1) ELSE n
        RECURSIVE RunUp(_, _)
        RunUp(s, n) ==
            IF n < Len(s) /\ ~KeyLt(s[n + 1], s[n]) THEN RunUp(s, n + 1) ELSE n
        CountRun(s) ==
            IF Len(s) < 2 THEN [n |-> Len(s), s |-> s]
            ELSE IF KeyLt(s[2], s[1])
            THEN LET n == RunDown(s, 2)
                 IN  [n |-> n, s |-> Reverse(SubSeq(s, 1, n)) \o SubSeq(s, n + 1, Len(s))]
            ELSE [n |-> RunUp(s, 2), s |-> s]
        \* the slot of the pivot among the first r elements (l, r count from 0)
        RECURSIVE BinarySlot(_, _, _, _)
        BinarySlot(s, pivot, l, r) ==
            IF l >= r THEN l
            ELSE LET mid == l + ((r - l) \div 2)
                 IN  IF KeyLt(pivot, s[mid + 1])
                     THEN BinarySlot(s, pivot, l, mid)
                     ELSE BinarySlot(s, pivot, mid + 1, r)
        RECURSIVE BinarySort(_, _)
        BinarySort(s, start) ==
            IF start >= Len(s) THEN s
            ELSE LET pivot == s[start + 1]
                     l     == BinarySlot(s, pivot, 0, start)
                 IN  BinarySort(SubSeq(s, 1, l) \o <<pivot>> \o SubSeq(s, l + 1, start)
                                \o SubSeq(s, start + 2, Len(s)),
                                start + 1)
        run == CountRun(Reverse(keyed))
    IN  Reverse(BinarySort(run.s, run.n))

\* rows.sort(key=_rank_key, reverse=True)
FloatRankSort(rs) ==
    LET keyed  == [i \in 1..Len(rs) |->
                      [of |-> rs[i].tokenAddress, key |-> _rank_key(rs[i]), row |-> rs[i]]]
        sorted == ListSortReverse(keyed)
    IN  [i \in 1..Len(rs) |-> sorted[i].row]

FloatRanked(rs) ==
    Trim(IF opts.unique_per_token
         THEN FloatRankSort(FirstPerToken(<<>>, FloatRankSort(rs)))
         ELSE FloatRankSort(rs))

\* tokens whose rows reach stage 5
MaxRanked == 4

\* the modes asked for, and the rows the mode loop emits for a token that
\* qualifies for the last n of them
RankModes == <<"early", "strict", "degen">>

EmittedFor(t, score, n) ==
    [m \in 1..n |->
        [ tokenAddress |-> <<t, 0>>, mode |-> RankModes[Len(RankModes) - n + m],
          spike_score |-> Num(600), score |-> score, liquidityUsd |-> Num(20000) ]]

RECURSIVE EmittedRows(_)
EmittedRows(n) ==
    IF n = 0 THEN {<<>>}
    ELSE { rs \o EmittedFor(n, score, k) :
             rs \in EmittedRows(n - 1), score \in {NaN, Num(1000), Num(2000)},
             k \in 1..Len(RankModes) }

RankInit ==
    /\ pc = "rank"
    /\ world = "market"
    /\ opts \in { [DefaultOpts EXCEPT !.selected_modes = RankModes,
                                      !.sort_by_spike = ss] : ss \in BOOLEAN }
    /\ rows \in EmittedRows(MaxRanked)
    /\ candidates_by_token = <<>>
    /\ candidates = <<>>
    /\ token_addrs = [t \in 1..MaxRanked |-> <<t, 0>>]
    /\ all_pairs = <<>>
    /\ pairs_by_token = NoPairs(world)
    /\ batches = <<>>
    /\ missing = <<>>
    /\ done = MaxRanked
    /\ idx = MaxRanked
    /\ why_filtered_list = <<>>
    /\ debug = EmptyDebug
    /\ calls = <<>>
    /\ progress = <<>>
    /\ resp = <<>>
    /\ trail = <<>>
    /\ MergeIdle
    /\ GateIdle
    /\ UiIdle
    /\ TapeOff

\* stage 5 as RankDedupe has it, sorting as the interpreter does
RankFloats ==
    /\ pc = "rank"
    /\ debug' = [debug EXCEPT
                   !.rows_after_filters = Len(rows),
                   !.has_why_filtered_list = opts.verbose_debug,
                   !.why_filtered_list = IF opts.verbose_debug
                                         THEN Take(why_filtered_list, 400) ELSE <<>>]
    /\ rows' = IF rows = <<>> THEN <<>> ELSE FloatRanked(rows)
    /\ idx' = 0
    /\ pc' = IF rows # <<>> /\ opts.include_orders THEN "orders" ELSE "done"
    /\ UNCHANGED <<opts, candidates_by_token, candidates, token_addrs, all_pairs,
                   pairs_by_token, batches, missing, done, why_filtered_list,
                   calls, progress, resp, trail, world, mrg, gate, ui, tape>>

SpecRank == RankInit /\ [][RankFloats]_vars

-----------------------------------------------------------------------------
(* The application's scan, end to end: the widgets hold the configured     *)
(* values, the press of the button calls run_scan_for_modes with keyword   *)
(* arguments taken from them, and the scan runs in the market world.       *)

\* the widgets as a first visit shows them (value=cfg.get(key, default))
WidgetDefaults ==
    [DefaultOpts EXCEPT !.pump_mode = TRUE]

\* what the user may have configured before the press
Forms ==
    { [WidgetDefaults EXCEPT
          !.anti_dead = ad, !.trending_min_liquidity = tl,
          !.trending_min_vol1h = v1, !.trending_min_vol5m = v1 \div 2,
          !.trending_min_netbuy5m = nb, !.spike_score_min = sp,
          !.include_orders = io] :
      ad \in BOOLEAN, tl \in {0, 15000}, v1 \in {1000, 4000}, nb \in {0, 2},
      sp \in {0, 250, 3000}, io \in BOOLEAN }

\* run_scan_for_modes(selected_modes=modes, top_n=int(top_n), ...): the
\* keyword arguments of the call; a parameter the call does not name keeps
\* the default of the function's signature
ScanCall(form) ==
    [DefaultOpts EXCEPT
        !.selected_modes = form.selected_modes,
        !.top_n = form.top_n,
        !.candidates_max = form.candidates_max,
        !.anti_dead = form.anti_dead,
        !.include_boosts = form.include_boosts,
        !.include_profiles = form.include_profiles,
        !.include_cto = form.include_cto,
        !.include_ads = form.include_ads,
        !.include_orders = form.include_orders,
        !.unique_per_token = form.unique_per_token,
        !.trending_filters = form.trending_filters,
        !.trending_min_liquidity = form.trending_min_liquidity,
        !.trending_min_vol1h = form.trending_min_vol1h,
        !.trending_min_vol5m = form.trending_min_vol5m,
        !.trending_min_netbuy5m = form.trending_min_netbuy5m,
        !.verbose_debug = form.verbose_debug,
        !.pump_mode = form.pump_mode,
        !.sort_by_spike = form.sort_by_spike,
        !.progress_callback = TRUE]

DeskInit ==
    /\ pc = "idle"
    /\ world = "market"
    /\ opts = DefaultOpts
    /\ ScanStart
    /\ MergeIdle
    /\ GateIdle
    /\ ui \in { [phase |-> "form", form |-> f] : f \in Forms }
    /\ TapeOff

\* if scan_clicked: ... runners, debug = run_scan_for_modes(...)
ScanPressed ==
    /\ pc = "idle"
    /\ ui.phase = "form"
    /\ opts' = ScanCall(ui.form)
    /\ pc' = "boosts"
    /\ ui' = [ui EXCEPT !.phase = "scanning"]
    /\ UNCHANGED <<candidates_by_token, candidates, token_addrs, all_pairs,
                   pairs_by_token, batches, missing, rows, done, idx,
                   why_filtered_list, debug, calls, progress, resp, trail, world,
                   mrg, gate, tape>>

DeskNext == ScanPressed \/ Next

SpecDesk == DeskInit /\ [][DeskNext]_vars

-----------------------------------------------------------------------------
(* Properties                                                              *)

Returned == pc = "done"

\* the threshold table as the design states it (pump_mode = true / false),
\* min_score in thousandths
DesignTable(mode, pump_mode) ==
    LET pick(a, b) == IF pump_mode THEN a ELSE b
    IN  CASE mode = "ultra_early" ->
               [min_liq |-> pick(2500, 4000), min_vol5 |-> pick(40, 80),
                min_netbuy5 |-> pick(0, 1), max_age_min |-> 240, min_score |-> 150]
          [] mode = "early_strict" ->
               [min_liq |-> pick(6000, 12000), min_vol5 |-> pick(120, 250),
                min_netbuy5 |-> pick(1, 2), max_age_min |-> 1440, min_score |-> 450]
          [] mode = "early" ->
               [min_liq |-> pick(3500, 8000), min_vol5 |-> pick(80, 160),
                min_netbuy5 |-> pick(0, 1), max_age_min |-> 1440, min_score |-> 250]
          [] mode = "strict" ->
               [min_liq |-> pick(15000, 25000), min_vol5 |-> pick(250, 500),
                min_netbuy5 |-> pick(2, 3), max_age_min |-> 10080, min_score |-> 850]
          [] OTHER ->
               [min_liq |-> pick(2500, 5000), min_vol5 |-> pick(60, 120),
                min_netbuy5 |-> pick(0, 1), max_age_min |-> 10080, min_score |-> 200]

MeetsDesignTable(r, mode, pump_mode) ==
    LET t == DesignTable(mode, pump_mode)
    IN  /\ r.liquidityUsd >= t.min_liq
        /\ r.vol5m >= t.min_vol5
        /\ r.netBuy5m >= t.min_netbuy5
        /\ r.ageMin <= t.max_age_min
        /\ r.score >= t.min_score

DesignRankKey(r) ==
    << IF opts.sort_by_spike THEN r.spike_score ELSE r.score, r.score, r.liquidityUsd >>

SortedByDesignKey(rs) ==
    \A i \in 1..Len(rs) : \A j \in 1..Len(rs) :
        i < j => LexGe(DesignRankKey(rs[i]), DesignRankKey(rs[j]))

C3_Original ==
    (Returned /\ opts.top_n >= 1 /\ debug.rows_after_filters >= opts.top_n)
        => Len(rows) = opts.top_n

\* how many rows are left to truncate: with unique_per_token, one per token
RowsLeftToTrim(rs) ==
    IF opts.unique_per_token
    THEN Cardinality({Lower(rs[i].tokenAddress) : i \in 1..Len(rs)})
    ELSE Len(rs)

\* C3, amended: the ranking step leaves exactly top_n rows whenever at least
\* top_n rows are left after the optional unique-per-token reduction
\* (top_n >= 1): the qualifying rows when unique_per_token is off, the
\* distinct tokens among them when it is on.
C3_ExactlyTopN ==
    [][ (pc = "rank" /\ opts.top_n >= 1 /\ RowsLeftToTrim(rows) >= opts.top_n)
            => Len(rows') = opts.top_n ]_vars

\* a scan that truncated: more rows were left than the top_n it returned
C3_Witness ==
    /\ Returned
    /\ opts.top_n = 2
    /\ Len(rows) = 2
    /\ debug.rows_after_filters > 2
    /\ Cardinality({t \in Range(trail) : t.branch = "modes"}) = 2

TokensOf(rs) == {Lower(rs[i].tokenAddress) : i \in 1..Len(rs)}

\* C4: applied to the sorted row list, the unique-per-token reduction does
\* not lengthen it, keeps exactly one row of every token that had rows (the
\* addresses compared in lower case), and keeps for each token a row whose
\* rank key is >= that of every row of the token.
C4_UniquePerToken ==
    (pc = "rank" /\ opts.unique_per_token /\ rows # <<>>) =>
        LET before == RankSort(rows)
            after  == UniquePerToken(before)
        IN  /\ Len(after) <= Len(before)
            /\ TokensOf(after) = TokensOf(before)
            /\ \A i \in 1..Len(after) : \A j \in 1..Len(after) :
                   Lower(after[i].tokenAddress) = Lower(after[j].tokenAddress) => i = j
            /\ \A i \in 1..Len(after) : \A j \in 1..Len(before) :
                   Lower(after[i].tokenAddress) = Lower(before[j].tokenAddress)
                       => LexGe(DesignRankKey(after[i]), DesignRankKey(before[j]))
            /\ Range(after) \subseteq Range(before)

\* the reduction is about to drop rows: two tokens, one of them with
\* several mode rows
C4_Witness ==
    /\ pc = "rank"
    /\ opts.unique_per_token
    /\ Cardinality(TokensOf(rows)) = 2
    /\ Len(rows) >= 4

\* the priority order of the source categories as the design states it
DesignPriority(s) ==
    CASE s = "boosts" -> 3 [] s = "ads" -> 2 [] s = "cto" -> 1 [] OTHER -> 0

MergedSoFar == {mrg.recs[k] : k \in 1..mrg.i}

Boost50 ==
    _candidate_from_boost_item(Item("solana", <<1, 1>>, Num(50), Null, "x", "u1", "", 0))

\* C5: whatever the order in which records of one token are merged, once a
\* record of a category (boosts, ads, cto) is among them the candidate's
\* source is the highest-priority category merged so far; a token merged
\* from the boosts record of amount 50 and an ads record has source
\* "boosts", boostAmount 50 and both categories in sources.
C5_SourcePriority ==
    LET cats == {r.source : r \in MergedSoFar} \ {""}
    IN  /\ cats # {} =>
              /\ mrg.acc.source \in cats
              /\ \A c \in cats : DesignPriority(mrg.acc.source) >= DesignPriority(c)
              /\ cats \subseteq Range(mrg.acc.sources)
        /\ (Boost50 \in MergedSoFar /\ "ads" \in cats) =>
              /\ mrg.acc.source = "boosts"
              /\ mrg.acc.boostAmount = 50
              /\ {"boosts", "ads"} \subseteq Range(mrg.acc.sources)

\* the ads record was merged first and the boosts record of amount 50 after it
C5_Witness ==
    /\ mrg.i = 2
    /\ mrg.recs[1].source = "ads"
    /\ mrg.recs[2] = Boost50

\* C6: once the three candidate sources have been read and left the table
\* empty, the scan has returned: no row, debug["why"] = "no_candidates", no
\* call of the progress callback, and no provider call other than the feeds
\* of the enabled sources.
C6_NoCandidates ==
    (pc \notin {"idle", "boosts", "ads", "cto", "cut"} /\ candidates_by_token = <<>>) =>
        /\ Returned
        /\ rows = <<>>
        /\ debug.why = "no_candidates"
        /\ progress = <<>>
        /\ \A k \in 1..Len(calls) :
               calls[k].api \in {"token_boosts_latest", "token_boosts_top",
                                 "ads_latest", "cto_latest"}

\* a scan with a callback whose feeds held items, none of them usable
C6_Witness ==
    /\ Returned
    /\ candidates_by_token = <<>>
    /\ opts.progress_callback
    /\ opts.include_boosts /\ opts.include_cto
    /\ debug.boost_items_raw > 0

\* the metrics of scenario A, scored in pump mode
ScenarioA ==
    /\ gate.stage = "modes"
    /\ opts.pump_mode
    /\ gate.row.liquidityUsd = 20000
    /\ gate.row.vol5m = 300
    /\ gate.row.vol1h = 1500
    /\ gate.row.netBuy5m = 3
    /\ gate.row.m5pct = 5
    /\ gate.row.h1pct = 2
    /\ gate.row.ageMin = 30

\* C7 as claimed: the token of scenario A qualifies for early_strict and
\* degen and not for strict.
C7_Original ==
    ScenarioA => /\ "early_strict" \in gate.modes
                 /\ "degen" \in gate.modes
                 /\ "strict" \notin gate.modes

\* C7, amended: the token of scenario A qualifies for early_strict, for
\* degen and for strict as well (its score is about 3.04, above 0.85).
C7_ScenarioA ==
    ScenarioA => /\ {"early_strict", "degen", "strict"} \subseteq gate.modes
                 /\ gate.row.score >= 3000

C7_Witness == ScenarioA

\* C9: _anti_dead_pass never rejects a row whose ageMin is <= 60, in either
\* pump_mode and whatever the liquidity, the volume, the transaction counts
\* and the trending thresholds.
C9_YoungNeverRejected ==
    (gate.stage \in {"anti_dead", "trending", "modes"} /\ gate.row.ageMin <= 60)
        => gate.anti_dead_pass

\* a row of exactly 60 minutes, without liquidity, outside pump mode, was kept
C9_Witness ==
    /\ gate.stage = "anti_dead"
    /\ ~opts.pump_mode
    /\ gate.row.ageMin = 60
    /\ gate.row.liquidityUsd = 0
    /\ gate.anti_dead_pass

\* the rows of the list that carry this token address and this mode
RowsOf(token_addr, mode) ==
    {i \in 1..Len(rows) : rows[i].tokenAddress = token_addr /\ rows[i].mode = mode}

GatedTokens == {t \in Range(trail) : t.branch = "modes"}

C10_ProgressPerToken ==
    opts.progress_callback =>
        LET N == Len(candidates)
        IN  /\ Len(progress) = Len(trail)
            /\ \A k \in 1..Len(progress) : progress[k] = <<k, N>>
            /\ pc \in {"rank", "orders", "done"} => Len(progress) = N

\* a finished scan of two tokens that were disposed of by two different
\* rejecting branches
C10_Witness ==
    /\ Returned
    /\ opts.progress_callback
    /\ Len(progress) = 2
    /\ \E i \in 1..Len(trail) : \E j \in 1..Len(trail) :
           /\ trail[i].branch \in {"no_pairs", "no_best"}
           /\ trail[j].branch \in {"anti_dead", "trending"}

\* two records have been folded: A first, then B
TwoMerged == mrg.i = 2

\* the same two records folded in the other order
OtherOrder == _merge_candidate(_merge_candidate(NoCand, mrg.recs[2]), mrg.recs[1])

SameMaxOrFields(x, y) ==
    /\ x.boostAmount = y.boostAmount
    /\ x.boostTotal = y.boostTotal
    /\ x.isCTO = y.isCTO

\* C11: for two records A and B of one token, merging B into A and merging A
\* into B give the same boostAmount and boostTotal, the same isCTO and the
\* same fill-once fields (boostType, profileUrl, profileDescription,
\* profileLinksCount, icon, header).
C11_Commutative ==
    TwoMerged =>
        /\ SameMaxOrFields(mrg.acc, OtherOrder)
        /\ mrg.acc.boostType = OtherOrder.boostType
        /\ mrg.acc.profileUrl = OtherOrder.profileUrl
        /\ mrg.acc.profileDescription = OtherOrder.profileDescription
        /\ mrg.acc.profileLinksCount = OtherOrder.profileLinksCount
        /\ mrg.acc.icon = OtherOrder.icon
        /\ mrg.acc.header = OtherOrder.header

\* C12: merging a record B once more into a candidate that B was just merged
\* into (merge(A, B), A being what was merged before) leaves the candidate
\* equal in every field: source, sources, boostAmount, boostTotal, boostType,
\* isCTO and the profile fields.
C12_Idempotent ==
    [][ (mrg.i >= 2 /\ mrg.i < Len(mrg.recs) /\ mrg.recs[mrg.i + 1] = mrg.recs[mrg.i])
            => mrg'.acc = mrg.acc ]_vars

\* B was merged a second time into merge(A, B), A and B being records of
\* different categories with different boost amounts and profile fields
C12_Witness ==
    /\ mrg.i = 3
    /\ mrg.recs[3] = mrg.recs[2]
    /\ mrg.recs[1].source = "cto"
    /\ mrg.recs[2] = Boost50
    /\ mrg.acc.sources = <<"cto", "boosts">>
    /\ mrg.acc.source = "boosts"

\* C13: under either pump_mode, a row that qualifies for strict meets the
\* liquidity and 5-minute-volume minimums the design's table gives for degen
\* under the same pump_mode.
C13_StrictMeetsDegenFloors ==
    (gate.stage = "modes" /\ "strict" \in gate.modes) =>
        LET degen == DesignTable("degen", opts.pump_mode)
        IN  /\ gate.row.liquidityUsd >= degen.min_liq
            /\ gate.row.vol5m >= degen.min_vol5

\* a row that qualifies for strict outside pump mode
C13_Witness ==
    /\ gate.stage = "modes"
    /\ ~opts.pump_mode
    /\ "strict" \in gate.modes
    /\ gate.row.liquidityUsd = 30000
    /\ gate.row.vol5m = 600

\* a creation timestamp that is missing, not a number, zero or negative
NoUsableTimestamp(created) ==
    \/ created.t \in {"null", "bad"}
    \/ created.t \in {"num", "str"} /\ created.v <= 0

\* C14: the metrics computed from a pair snapshot have ageMin >= 0; a
\* creation timestamp later than the current time gives 0, and one that is
\* missing, non-numeric, zero or negative gives 999999.
C14_AgeNonNegative ==
    gate.stage \in {"row", "anti_dead", "trending", "modes"} =>
        LET created == gate.pair.pairCreatedAt
        IN  /\ gate.row.ageMin >= 0
            /\ NoUsableTimestamp(created) => gate.row.ageMin = 999999
            /\ (created.t \in {"num", "str"} /\ created.v > NowMin)
                   => gate.row.ageMin = 0

\* the metrics of a pair created five minutes after the current time
C14_Witness ==
    /\ gate.stage = "row"
    /\ gate.pair.pairCreatedAt = Num(NowMin + 5)
    /\ gate.row.ageMin = 0

\* C15: for any metrics record given to score_pair (all-zero metrics,
\* negative values and values arriving as strings included) the returned
\* score and spike_score are finite: not an infinity and not a NaN.
C15_ScoresFinite ==
    gate.stage = "scored" =>
        /\ gate.out.score = "fin"
        /\ gate.out.spike_score = "fin"

OrdersCalls == {k \in 1..Len(calls) : calls[k].api = "orders"}

\* the number of paid orders a lookup's answer holds; a failed lookup holds none
OrdersIn(data) == IF data.kind = "fail" THEN 0 ELSE data.n

\* C16: paid-order lookups are issued only with include_orders, only once the
\* rows are ranked, reduced and truncated, after every other provider call,
\* one per row of the final list and for that row's token (so never for a
\* candidate without a row in it); the row a lookup was made for has
\* orders_count = the number of orders returned and isDexPaid = (orders_count
\* > 0); a failed lookup gives 0 and false, and the scan goes on to the next
\* row or returns.
C16_OrdersForFinalists ==
    /\ OrdersCalls # {} =>
          /\ opts.include_orders
          /\ pc \in {"orders", "done"}
          /\ Len(rows) <= Max(1, opts.top_n)
          /\ SortedByDesignKey(rows)
          /\ Cardinality(OrdersCalls) = idx
          /\ \A k \in OrdersCalls : \A j \in 1..Len(calls) :
                 j > k => calls[j].api = "orders"
          /\ \A k \in 1..idx :
                 calls[Len(calls) - idx + k].args = <<rows[k].tokenAddress>>
          /\ rows[idx].orders_count = OrdersIn(resp)
          /\ rows[idx].isDexPaid = (OrdersIn(resp) > 0)
          /\ \A k \in 1..Len(rows) :
                 IF k <= idx
                 THEN rows[k].orders_count >= 0
                      /\ rows[k].isDexPaid = (rows[k].orders_count > 0)
                 ELSE rows[k].orders_count = -1 /\ ~rows[k].isDexPaid
    /\ (Returned /\ opts.include_orders) => Cardinality(OrdersCalls) = Len(rows)

\* a returned scan whose first row has two paid orders and whose last lookup
\* failed, with a candidate that is not in the returned list
C16_Witness ==
    /\ Returned
    /\ opts.include_orders
    /\ Len(rows) >= 2
    /\ rows[1].orders_count = 2 /\ rows[1].isDexPaid
    /\ resp = [kind |-> "fail", n |-> 0]
    /\ rows[Len(rows)].orders_count = 0 /\ ~rows[Len(rows)].isDexPaid
    /\ \E t \in Range(trail) : \A k \in 1..Len(rows) :
           rows[k].tokenAddress # t.tokenAddress

\* C17: when run_scan_for_modes raises during a scan started from the
\* application, the application goes on to show its page: last_scan_debug
\* holds the error, the displayed result set is empty, and the persisted
\* last-scan timestamp is the one from before the press; the timestamp
\* changes only in a press whose scan returned.
C17_ScanErrorHandled ==
    /\ ui.phase # "off" /\ ui.outcome = "raised" =>
          /\ ui.phase = "shown"
          /\ ui.last_scan_debug.kind = "error"
          /\ ui.last_scan_debug.error \in ScanErrors
          /\ ui.last_scan_df = <<>>
          /\ ui.last_scan_ts = ui.ts_before
    /\ ui.phase # "off" /\ ui.last_scan_ts # ui.ts_before => ui.outcome = "returned"

\* a scan raised after an earlier press had shown rows and stored its time
C17_Witness ==
    /\ ui.phase = "shown"
    /\ ui.outcome = "raised"
    /\ ui.clicks = 2
    /\ ui.last_scan_ts = Stamp(1)
    /\ ui.last_scan_df = <<>>

\* the six conditions on a row, as the design lists them (scores in
\* thousandths, turnover in ten-thousandths)
PassesTrending(r) ==
    /\ r.liquidityUsd >= opts.trending_min_liquidity
    /\ r.vol1h >= opts.trending_min_vol1h \/ r.vol5m >= opts.trending_min_vol5m
    /\ r.netBuy5m >= opts.trending_min_netbuy5m
    /\ r.spike_score >= opts.spike_score_min
    /\ ~(/\ r.boostAmount > 0
         /\ r.netBuy5m <= 0
         /\ r.turnover_1h_over_liq < 100
         /\ r.spike_score < Max(opts.spike_score_min, 400))
    /\ r.m5pct > 0 \/ r.spike_score >= Max(opts.spike_score_min, 550)

SnapshotKey(p) == <<_safe_float(p.liquidity_usd, 0), _safe_float(p.volume_h24, 0)>>

\* position k holds a snapshot with a maximal key, the first one among those
FirstMaximal(pairs, k) ==
    /\ \A j \in 1..Len(pairs) : LexGe(SnapshotKey(pairs[k]), SnapshotKey(pairs[j]))
    /\ \A j \in 1..(k - 1) : SnapshotKey(pairs[j]) # SnapshotKey(pairs[k])

\* C19: for every processed token that has at least one snapshot indexed
\* under it, a best pair was selected: the first snapshot among those whose
\* (liquidity USD, 24h volume USD) is lexicographically maximal, and the
\* token's metrics are the ones computed from that snapshot.
C19_BestPairMaximal ==
    \A i \in 1..Len(trail) :
        LET pairs == pairs_by_token[Lower(trail[i].tokenAddress)]
        IN  pairs # <<>> =>
                /\ trail[i].base # NoRow
                /\ \E k \in 1..Len(pairs) :
                       /\ FirstMaximal(pairs, k)
                       /\ trail[i].base.pairAddress = pairs[k].pairAddress
                       /\ trail[i].base.liquidityUsd = SnapshotKey(pairs[k])[1]

\* the batched requests sent so far, in order
BatchCalls == SelectSeq(calls, LAMBDA c : c.api = "pairs_batch")

\* the places (request, position) where address a was sent
SentAt(a) ==
    UNION { { <<i, j>> : j \in { k \in 1..Len(BatchCalls[i].args) :
                                    BatchCalls[i].args[k] = a } } :
            i \in 1..Len(BatchCalls) }

\* C20: in the batched tier every batched request carries between one and
\* 30 addresses; no candidate's token address is ever sent twice, and once
\* the tier is over each has been sent in exactly one request; and every
\* pair the requests returned is then in the index under its lowercased
\* base-token address and under its lowercased quote-token address.
C20_BatchedTier ==
    /\ \A i \in 1..Len(BatchCalls) :
          /\ Len(BatchCalls[i].args) >= 1
          /\ Len(BatchCalls[i].args) <= 30
    /\ \A k \in 1..Len(candidates) :
          /\ Cardinality(SentAt(candidates[k].tokenAddress)) <= 1
          /\ pc # "batch" => Cardinality(SentAt(candidates[k].tokenAddress)) = 1
    /\ pc # "batch" =>
          \A i \in 1..Len(all_pairs) :
              /\ all_pairs[i] \in Range(pairs_by_token[Lower(all_pairs[i].baseToken)])
              /\ all_pairs[i] \in Range(pairs_by_token[Lower(all_pairs[i].quoteToken)])

\* the tier is over for more than 60 candidates: three requests were sent,
\* the feed named one token twice, and pairs came back
C20_Witness ==
    /\ pc # "batch"
    /\ Len(candidates) > 60
    /\ Len(BatchCalls) = 3
    /\ debug.boost_items_raw > Len(candidates)
    /\ Len(all_pairs) > 30

\* the single-token lookups made so far, in order
FallbackCalls == SelectSeq(calls, LAMBDA c : c.api = "pairs_fallback")

\* the tokens, in candidate order, under whose lowercased address the
\* batched requests returned no pair
AbsentFromBatched ==
    SelectSeq(token_addrs,
              LAMBDA a : \A i \in 1..Len(all_pairs) :
                            /\ Lower(all_pairs[i].baseToken) # Lower(a)
                            /\ Lower(all_pairs[i].quoteToken) # Lower(a))

\* C21: a single-token lookup is made only when no batched request is left
\* to send and none is sent after it; the lookups made are, in order, the
\* first tokens in candidate order that the batched index lacks, at most 15
\* of them, and all of those once the tier is over; a token that has no
\* snapshot after both tiers ends in the branch that skips it and has no row.
C21_FallbackTier ==
    LET lookups == FallbackCalls
        absent  == AbsentFromBatched
    IN  /\ lookups # <<>> => batches = <<>> /\ pc # "batch"
        /\ \A i, j \in 1..Len(calls) :
              calls[i].api = "pairs_fallback" /\ calls[j].api = "pairs_batch" => j < i
        /\ Len(lookups) <= 15
        /\ Len(lookups) <= Len(absent)
        /\ \A i \in 1..Len(lookups) : lookups[i].args = <<absent[i]>>
        /\ pc = "tokens" \/ pc = "rank" =>
              Len(lookups) = IF Len(absent) < 15 THEN Len(absent) ELSE 15
        /\ \A i \in 1..Len(trail) :
              pairs_by_token[Lower(trail[i].tokenAddress)] = <<>> =>
                  /\ trail[i].branch = "no_pairs"
                  /\ \A k \in 1..Len(rows) :
                        Lower(rows[k].tokenAddress) # Lower(trail[i].tokenAddress)

\* more than 15 tokens were absent from the batched index, 15 lookups were
\* made, one of the tokens looked up still has no snapshot and was
\* skipped, and another token has rows
C21_Witness ==
    /\ pc = "rank"
    /\ Len(AbsentFromBatched) > 15
    /\ Len(FallbackCalls) = 15
    /\ all_pairs # <<>>
    /\ rows # <<>>
    /\ \E i \in 1..Len(trail) :
          /\ trail[i].branch = "no_pairs"
          /\ \E k \in 1..Len(FallbackCalls) :
                FallbackCalls[k].args = <<trail[i].tokenAddress>>

\* the lowercased addresses of a list of records or candidates
AddressesOf(recs) == {Lower(recs[i].tokenAddress) : i \in 1..Len(recs)}

\* the records of a response that name the configured chain (under one of
\* its spellings) and carry an address
Surviving(recs) ==
    SelectSeq(recs, LAMBDA it :
        /\ it.chainId \in {"solana", "sol", "solana-mainnet", "mainnet", "sol-mainnet"}
        /\ it.tokenAddress # EmptyAddr)

\* what a step of the aggregation does to the table
AggregatesOnePerAddress ==
    pc \in {"boosts", "ads", "cto"} =>
        /\ AddressesOf(candidates_by_token')
              = AddressesOf(candidates_by_token) \cup AddressesOf(Surviving(resp'))
        /\ Cardinality(AddressesOf(candidates_by_token')) = Len(candidates_by_token')
        /\ Surviving(resp') = <<>> => candidates_by_token' = candidates_by_token
        /\ \A i \in 1..Len(candidates_by_token') :
              /\ candidates_by_token'[i].tokenAddress # EmptyAddr
              /\ candidates_by_token'[i].chainId = CHAIN_ID

\* C22: each step of the aggregation (boosts, ads, community takeovers)
\* leaves the table with one candidate per lowercased address, the
\* addresses being those it had and those of the surviving records of the
\* feed just read; a feed without a surviving record leaves the table as it
\* was; every candidate has an address and the configured chain.
C22_OnePerAddress == [][AggregatesOnePerAddress]_vars

\* the aggregation is over: the last feed held a record of another chain,
\* the feeds held more records than there are candidates, and two
\* candidates are in the table
C22_Witness ==
    /\ pc = "cut"
    /\ resp # <<>>
    /\ Surviving(resp) = <<>>
    /\ Len(candidates_by_token) = 2
    /\ debug.boost_items_raw + debug.ads_items_raw + debug.cto_items_raw
          > Len(candidates_by_token) + 1

\* the candidates the truncation dropped: those of the table not passed on
CutAway ==
    SelectSeq(candidates_by_token,
              LAMBDA c : \A i \in 1..Len(candidates) :
                            Lower(candidates[i].tokenAddress) # Lower(c.tokenAddress))

\* (source priority, boostAmount) as the design orders the sources:
\* boosts over ads over community takeovers over anything else
DesignCutKey(c) == <<DesignPriority(c.source), c.boostAmount>>

\* the aggregation and the truncation are over and profiles have not yet
\* been merged in
JustCut == pc = "profiles" \/ (pc = "done" /\ debug.why = "no_candidates")

SameOtherFields(before, after) ==
    /\ after.tokenAddress = before.tokenAddress
    /\ after.chainId = before.chainId
    /\ after.source = before.source
    /\ after.sources = before.sources
    /\ after.boostAmount = before.boostAmount
    /\ after.boostTotal = before.boostTotal
    /\ after.boostType = before.boostType
    /\ after.isCTO = before.isCTO

\* a profile field that was set keeps its value
SetProfileFieldsKept(before, after) ==
    /\ before.profileUrl # "" => after.profileUrl = before.profileUrl
    /\ before.profileDescription # "" =>
          after.profileDescription = before.profileDescription
    /\ before.profileLinksCount # 0 =>
          after.profileLinksCount = before.profileLinksCount
    /\ before.icon # "" => after.icon = before.icon
    /\ before.header # "" => after.header = before.header

\* the records of the profiles feed that name this candidate's token
ProfilesOf(c, profiles) ==
    SelectSeq(profiles, LAMBDA p :
        /\ p.chainId \in {"solana", "sol", "solana-mainnet", "mainnet", "sol-mainnet"}
        /\ p.tokenAddress # EmptyAddr
        /\ Lower(p.tokenAddress) = Lower(c.tokenAddress))

\* what the enrichment step does to the table and to the list
EnrichmentFrame ==
    pc = "profiles" =>
        /\ candidates' = candidates
        /\ Len(candidates_by_token') = Len(candidates_by_token)
        /\ \A i \in 1..Len(candidates_by_token) :
              LET before == candidates_by_token[i]
                  after  == candidates_by_token'[i]
              IN  /\ SameOtherFields(before, after)
                  /\ SetProfileFieldsKept(before, after)
                  /\ ProfilesOf(before, resp') = <<>> => after = before

CategoryRead == IF pc = "cto" THEN "cto" ELSE pc

\* the sources a candidate had before the step (none when it is new)
SourcesBefore(c) ==
    LET old == TableGet(candidates_by_token, Lower(c.tokenAddress))
    IN  IF old = NoCand THEN <<>> ELSE old.sources

\* the feed just read holds a surviving record of the candidate's token;
\* the profiles feed is read for the candidates passed on
Mentioned(c, feed) ==
    /\ ProfilesOf(c, feed) # <<>>
    /\ pc = "profiles" =>
          \E k \in 1..Len(candidates) :
              Lower(candidates[k].tokenAddress) = Lower(c.tokenAddress)

\* what reading one feed does to the sources of the candidates
SourcesStep ==
    pc \in {"boosts", "ads", "cto", "profiles"} =>
        \A i \in 1..Len(candidates_by_token') :
            LET c      == candidates_by_token'[i]
                before == SourcesBefore(c)
            IN  /\ c.sources =
                      IF Mentioned(c, resp') /\ CategoryRead \notin Range(before)
                      THEN Append(before, CategoryRead) ELSE before
                /\ c.source \in Range(c.sources)
                /\ Cardinality(Range(c.sources)) = Len(c.sources)

\* C25: reading a feed (boosts, ads, community takeovers, then profiles)
\* appends the feed's category to the sources of every candidate the feed
\* has a record of, unless it is there already, and changes no other
\* candidate's sources; so after aggregation and enrichment sources holds,
\* without duplicates and in first-seen order, exactly the categories whose
\* feed had a record of the token, and source is one of them.
C25_SourcesComplete == [][SourcesStep]_vars

-----------------------------------------------------------------------------
(* C26: verbose_debug and the course of a scan                             *)

\* the repeated scan has taken its k-th step and is where the first scan
\* was after its k-th step
InStep ==
    tape.mode = "replay" /\ tape.k > 0 => pc = tape.heard[tape.k].pc

\* the answers the provider may give to the step the scan is about to take
\* (a step that makes no request hears nothing new)
Offered ==
    CASE pc = "boosts" ->
             { latest \o top :
                 latest \in (IF opts.include_boosts
                             THEN BoostsLatestResponses(world) ELSE {<<>>}),
                 top \in (IF opts.include_boosts /\ opts.pump_mode
                          THEN BoostsTopResponses(world) ELSE {<<>>}) }
      [] pc = "ads" -> IF opts.include_ads THEN AdsResponses(world) ELSE {<<>>}
      [] pc = "cto" -> IF opts.include_cto THEN CtoResponses(world) ELSE {<<>>}
      [] pc = "cut" -> {<<>>}
      [] pc = "profiles" ->
             IF opts.include_profiles THEN ProfilesResponses(world) ELSE {<<>>}
      [] pc = "batch" ->
             IF batches # <<>> THEN BatchResponses(world, Head(batches)) ELSE {}
      [] pc = "fallback" ->
             IF missing # <<>> THEN FallbackResponses(world, Head(missing)) ELSE {}
      [] pc = "tokens" -> IF idx < Len(token_addrs) THEN {<<>>} ELSE {}
      [] pc = "rank" -> {resp}
      [] pc = "orders" -> IF idx < Len(rows) THEN OrdersResponses ELSE {}
      [] OTHER -> {}

\* the repeated scan can take every recorded answer
NeverStuck ==
    tape.mode = "replay" /\ pc # "done" =>
        /\ tape.k < Len(tape.heard)
        /\ tape.heard[tape.k + 1].resp \in Offered

\* C26: two scans that differ only in verbose_debug and get the same
\* provider answers go through the same steps, return the same rows and
\* make the same provider calls; the debug record holds a why_filtered_list
\* only in a scan with verbose_debug set, and never more than 400 entries.
C26_VerboseDebugInert ==
    /\ InStep
    /\ NeverStuck
    /\ tape.mode = "replay" /\ Returned =>
           /\ tape.k = Len(tape.heard)
           /\ rows = tape.rows
           /\ calls = tape.calls
    /\ debug.has_why_filtered_list => opts.verbose_debug
    /\ ~opts.verbose_debug => debug.why_filtered_list = <<>>
    /\ Len(debug.why_filtered_list) <= 400

\* a repeated scan that logged a rejected token (the first scan did not
\* log) has returned rows
C26_Witness ==
    /\ tape.mode = "replay"
    /\ Returned
    /\ opts.verbose_debug
    /\ rows # <<>>
    /\ debug.why_filtered_list # <<>>
    /\ calls # <<>>

\* a scan that rejected more than 400 tokens has cut its list
C26_WitnessCut ==
    /\ Returned
    /\ Len(why_filtered_list) > 400
    /\ Len(debug.why_filtered_list) = 400

-----------------------------------------------------------------------------
(* C27: tokens whose best pair has no usable creation timestamp            *)

\* the best pair of the token of a row, as the scan resolved it
BestOf(r) == BestPair(pairs_by_token[Lower(r.tokenAddress)])

\* C27: no row of the scan belongs to a token whose best pair has a missing
\* or invalid creation timestamp (ageMin 999999), whatever anti_dead,
\* trending_filters, pump_mode and the requested modes (names that are not
\* modes included) are: every mode's max_age_min is at most 10080.
C27_NoStaleRows ==
    /\ \A i \in 1..Len(rows) :
           /\ rows[i].ageMin # 999999
           /\ BestOf(rows[i]) # NoRow
           /\ ~NoUsableTimestamp(BestOf(rows[i]).pairCreatedAt)
    /\ \A m \in KnownModes \cup {"moon", "turbo"}, pm \in BOOLEAN :
           _mode_thresholds(m, pm).max_age_min <= 10080

\* a scan without filters, asked for a name that is not a mode, has put a
\* token of unknown age through the mode loop and returned the other token
C27_Witness ==
    /\ Returned
    /\ ~opts.anti_dead
    /\ ~opts.trending_filters
    /\ opts.selected_modes = <<"moon">>
    /\ Len(rows) = 1
    /\ \E i \in 1..Len(trail) :
           /\ trail[i].branch = "modes"
           /\ trail[i].base.ageMin = 999999

-----------------------------------------------------------------------------
(* C28: the configured trending thresholds and the ones the scan applies   *)

\* the tokens the trending filter of the running scan has looked at
SeenByTrending ==
    { i \in 1..Len(trail) :
        opts.trending_filters /\ trail[i].branch \in {"trending", "modes"} }

\* the scan applies the configured liquidity, vol1h, vol5m and netBuy5m
\* thresholds
OtherThresholdsFromUi ==
    ui.phase = "scanning" =>
        /\ opts.trending_min_liquidity = ui.form.trending_min_liquidity
        /\ opts.trending_min_vol1h = ui.form.trending_min_vol1h
        /\ opts.trending_min_vol5m = ui.form.trending_min_vol5m
        /\ opts.trending_min_netbuy5m = ui.form.trending_min_netbuy5m

\* C28: in a scan started from the UI, the spike_score_min that the
\* trending filter applies is the "Min spike_score" configured in the UI,
\* as for the other configured thresholds: every token the filter has
\* looked at got the reasons the configured thresholds give.
C28_SpikeMinFromUi ==
    /\ OtherThresholdsFromUi
    /\ ui.phase = "scanning" =>
           /\ opts.spike_score_min = ui.form.spike_score_min
           /\ \A i \in SeenByTrending :
                  _trending_reasons(trail[i].base, opts)
                      = _trending_reasons(trail[i].base, ui.form)

-----------------------------------------------------------------------------
(* C29: the mode of the row that survives the unique-per-token reduction   *)

\* the modes the token of row r had a row for, before the reduction
ModesEmittedFor(r) ==
    { rows[j].mode : j \in { j \in 1..Len(rows) :
                              Lower(rows[j].tokenAddress) = Lower(r.tokenAddress) } }

\* the first mode of selected_modes among ms
FirstSelected(ms) ==
    LET at == CHOOSE i \in 1..Len(opts.selected_modes) :
                  /\ opts.selected_modes[i] \in ms
                  /\ \A j \in 1..(i - 1) : opts.selected_modes[j] \notin ms
    IN  opts.selected_modes[at]

FirstModeSurvives ==
    pc = "rank" /\ pc' # "rank" /\ opts.unique_per_token =>
        /\ \A i, j \in 1..Len(rows') :
               Lower(rows'[i].tokenAddress) = Lower(rows'[j].tokenAddress) => i = j
        /\ \A i \in 1..Len(rows') :
               rows'[i].mode = FirstSelected(ModesEmittedFor(rows'[i]))

\* C29: with unique_per_token, the one row a token keeps carries the first
\* mode of selected_modes the token qualified for.
C29_FirstModeSurvives == [][FirstModeSurvives]_vars

-----------------------------------------------------------------------------
(* C30: the liquidity minimum of a mode and its score minimum              *)

\* the row meets the liquidity check of the mode loop and not its score check
ScoreAloneRejects(row, mode, pump_mode) ==
    LET t == _mode_thresholds(mode, pump_mode)
    IN  /\ ~(row.liquidityUsd < t.min_liq)
        /\ row.score < t.min_score

\* C30: for either value of pump_mode and each of the five modes, a row
\* with vol1h >= 0 that meets the mode's min_liq meets its min_score: with
\* spike_score >= 0 the score is at least 0.30 * log10(1 + liquidityUsd),
\* and every min_liq is at least 2500.
C30_LiquidityImpliesScore ==
    /\ \A m \in KnownModes, pm \in BOOLEAN : _mode_thresholds(m, pm).min_liq >= 2500
    /\ gate.stage \in {"row", "anti_dead", "trending", "modes"} /\ gate.row.vol1h >= 0 =>
           /\ gate.row.spike_score >= 0
           /\ gate.row.score >= (300 * Log10Milli(1 + Max(gate.row.liquidityUsd, 0))) \div 1000
           /\ \A m \in KnownModes : ~ScoreAloneRejects(gate.row, m, opts.pump_mode)

\* a row just at the strict minimum of liquidity, without volume, momentum
\* or net buys, has gone through the mode gate
C30_Witness ==
    /\ gate.stage = "modes"
    /\ opts.pump_mode
    /\ gate.row.liquidityUsd = _mode_thresholds("strict", TRUE).min_liq
    /\ gate.row.vol1h = 0
    /\ gate.row.spike_score = 0
    /\ gate.row.score >= _mode_thresholds("strict", TRUE).min_score
    /\ "strict" \notin gate.modes
====
